---- MODULE Spec2Model ----
(***************************************************************************)
(* A model of meteors.py: the collision dispatch registry (class Collider),*)
(* the position/orientation history of world objects (class WObject and    *)
(* its subclasses Ship, Bullet, Meteor), the line geometry (class Line),   *)
(* the swept bullet-meteor detector and the frame loop (class Game).       *)
(*                                                                         *)
(* Eight specifications share the module:                                    *)
(*   Spec         the Collider: register_methods, collide, handle          *)
(*   SpecWObject  one WObject under init_pos/update_pos/init_deg/update_deg*)
(*   SpecEntity   one Ship, Bullet or Meteor under per-frame update calls  *)
(*                and key input                                            *)
(*   SpecLine     Line: construction, within, intersection, intersect      *)
(*   SpecSweep    the bullet-meteor detector on one Bullet and one Meteor  *)
(*   SpecGame     the Game: key input and the per-frame update             *)
(*   SpecPlace    Game.add_meteor1: the placement of the meteors of a level*)
(*   SpecShape    the transform pipeline and the two detectors on objects  *)
(*                whose vectors are shared heap objects                    *)
(* Each specification leaves the variables of the others unchanged.        *)
(***************************************************************************)
EXTENDS Integers, Sequences, FiniteSets, TLC

VARIABLES
    method_dict,   \* Collider.method_dict: type1 -> (type2 -> <<detector, handler>>)
    remove,        \* WObject.remove of each object handed to the Collider
    op,            \* the last Collider operation: <<name, arg, arg>>
    calls,         \* the callbacks the last operation invoked, as Call records
    ret,           \* what the last operation returned: "True", "False", "None", "raise"
    ent,           \* one world object (fields of WObject and of its subclass)
    wop,           \* the last operation on ent: <<name, argument>>
    trace,         \* history of ent kept for stating the claims (not program state)
    heap,          \* the Vector2 objects of the Line specification: address -> value
    line,          \* the Line objects constructed: <<[start, end]>> of addresses
    lop,           \* the last Line operation, its arguments and its result
    met,           \* the Meteor a detector is applied to
    cd,            \* the last detector call and what it returned
    game,          \* the fields of the Game object and the objects it refers to
    frame,         \* what the last Game handler did, step by step (not program state)
    place,         \* Game.add_meteor1 under way: its locals and its position
    world,         \* a Ship, a Bullet and a Meteor whose vectors are heap addresses
    wcall          \* the last call on the objects of world and what it returned

colVars == <<method_dict, remove, op, calls, ret>>
entVars == <<ent, wop, trace>>
lineVars == <<heap, line, lop>>
sweepVars == <<met, cd>>
gameVars == <<game, frame>>
placeVars == <<place>>
shapeVars == <<world, wcall>>
vars == <<method_dict, remove, op, calls, ret, ent, wop, trace,
          heap, line, lop, met, cd, game, frame, place, world, wcall>>

(***************************************************************************)
(* Bounds of the model.                                                    *)
(***************************************************************************)
\* update_pos / update_deg calls explored after the last init_pos / init_deg
MaxUpdates == 5
\* frames (update calls) explored for one entity
MaxFrames == 3

\* Python's None, also the value of a failed dictionary lookup and of a
\* variable that a specification does not use
None == <<>>

\* the variables of the specifications that are not running
NoCollider ==
    /\ method_dict = None
    /\ remove = None
    /\ op = None
    /\ calls = None
    /\ ret = None

NoEntity ==
    /\ ent = None
    /\ wop = None
    /\ trace = None

NoLines ==
    /\ heap = None
    /\ line = None
    /\ lop = None

NoSweep ==
    /\ met = None
    /\ cd = None

NoGame ==
    /\ game = None
    /\ frame = None

NoPlace == place = None

NoShape ==
    /\ world = None
    /\ wcall = None

(***************************************************************************)
(* Collider (src/meteors.py 621-685)                                       *)
(***************************************************************************)
\* class names of the game's world objects, as Collider._type returns them
TypeNames == {"Ship", "Bullet", "Meteor1", "Meteor2", "Meteor3"}

\* the class names used as type1/type2 arguments of the explored registrations
RegTypes == {"Ship", "Meteor1"}

\* callbacks passed as the detector / handler arguments of register_methods
Detectors == {"detect1", "detect2"}
Handlers == {"handle1", "handle2"}

\* the objects handed to collide and handle, with their classes
ObjClass == <<"Ship", "Meteor1", "Bullet">>
Objs == DOMAIN ObjClass

_type(obj) == ObjClass[obj]

\* dictionary assignment d[k] = v
DictSet(d, k, v) == [x \in (DOMAIN d) \cup {k} |-> IF x = k THEN v ELSE d[x]]

EmptyDict == [x \in {} |-> None]

\* _find_methods looking at type1 only
_find_methodsFirstTypeOnly(md, type1, type2) ==
    IF type1 \in DOMAIN md /\ DOMAIN md[type1] # {}
    THEN md[type1][CHOOSE t \in DOMAIN md[type1] : TRUE]
    ELSE None

_find_methods(md, type1, type2) ==
    IF type1 \in DOMAIN md
    THEN IF type2 \in DOMAIN md[type1] THEN md[type1][type2] ELSE None
    ELSE None

\* the guard of register_methods: TRUE when the call raises
RegisterRaisesReversedUnchecked(md, type1, type2) ==
    _find_methods(md, type1, type2) # None

RegisterRaises(md, type1, type2) ==
    \/ _find_methods(md, type1, type2) # None
    \/ _find_methods(md, type2, type1) # None

\* the dictionary after the two assignments of register_methods (637-639)
RegisterStore(md, detector, handler, type1, type2) ==
    LET md1 == IF type1 \in DOMAIN md THEN md ELSE DictSet(md, type1, EmptyDict)
    IN  DictSet(md1, type1, DictSet(md1[type1], type2, <<detector, handler>>))

\* the registry after register_methods(detector, handler, type1, type2):
\* unchanged when the call raises
RegisteredStoreBeforeCheck(md, detector, handler, type1, type2) ==
    RegisterStore(md, detector, handler, type1, type2)

Registered(md, detector, handler, type1, type2) ==
    IF RegisterRaises(md, type1, type2) THEN md
    ELSE RegisterStore(md, detector, handler, type1, type2)

\* one callback invocation: the callback, its arguments in order, its result
Call(fn, a, b, result) == [fn |-> fn, args |-> <<a, b>>, result |-> result]

PyBool(b) == IF b THEN "True" ELSE "False"

\* collide(obj1, obj2) with r the result of the detector, if one is invoked:
\* the callbacks invoked and the value returned
CollideFirstFlagOnly(md, rm, obj1, obj2, r) ==
    IF rm[obj1] THEN [calls |-> <<>>, ret |-> "False"]
    ELSE LET methods1 == _find_methods(md, _type(obj1), _type(obj2))
             methods2 == _find_methods(md, _type(obj2), _type(obj1))
         IN  IF methods1 = None /\ methods2 = None
             THEN [calls |-> <<>>, ret |-> "False"]
             ELSE IF methods1 # None
             THEN [calls |-> <<Call(methods1[1], obj1, obj2, PyBool(r))>>, ret |-> PyBool(r)]
             ELSE [calls |-> <<Call(methods2[1], obj2, obj1, PyBool(r))>>, ret |-> PyBool(r)]

CollideArgsAsPassed(md, rm, obj1, obj2, r) ==
    IF rm[obj1] \/ rm[obj2] THEN [calls |-> <<>>, ret |-> "False"]
    ELSE LET methods1 == _find_methods(md, _type(obj1), _type(obj2))
             methods2 == _find_methods(md, _type(obj2), _type(obj1))
         IN  IF methods1 = None /\ methods2 = None
             THEN [calls |-> <<>>, ret |-> "False"]
             ELSE IF methods1 # None
             THEN [calls |-> <<Call(methods1[1], obj1, obj2, PyBool(r))>>, ret |-> PyBool(r)]
             ELSE [calls |-> <<Call(methods2[1], obj1, obj2, PyBool(r))>>, ret |-> PyBool(r)]

\* collide on two objects given by their remove flags and class names
CollideTyped(md, removed1, removed2, type1, type2, obj1, obj2, r) ==
    IF removed1 \/ removed2 THEN [calls |-> <<>>, ret |-> "False"]
    ELSE LET methods1 == _find_methods(md, type1, type2)
             methods2 == _find_methods(md, type2, type1)
         IN  IF methods1 = None /\ methods2 = None
             THEN [calls |-> <<>>, ret |-> "False"]
             ELSE IF methods1 # None
             THEN [calls |-> <<Call(methods1[1], obj1, obj2, PyBool(r))>>, ret |-> PyBool(r)]
             ELSE IF methods2 # None
             THEN [calls |-> <<Call(methods2[1], obj2, obj1, PyBool(r))>>, ret |-> PyBool(r)]
             ELSE [calls |-> <<>>, ret |-> "False"]

Collide(md, rm, obj1, obj2, r) ==
    CollideTyped(md, rm[obj1], rm[obj2], _type(obj1), _type(obj2), obj1, obj2, r)

\* handle(obj1, obj2): the handler invoked, if any
HandleArgsAsPassed(md, rm, obj1, obj2) ==
    IF rm[obj1] \/ rm[obj2] THEN <<>>
    ELSE LET methods1 == _find_methods(md, _type(obj1), _type(obj2))
             methods2 == _find_methods(md, _type(obj2), _type(obj1))
         IN  IF methods1 = None /\ methods2 = None THEN <<>>
             ELSE IF methods1 # None
             THEN <<Call(methods1[2], obj1, obj2, "None")>>
             ELSE <<Call(methods2[2], obj1, obj2, "None")>>

\* handle on two objects given by their remove flags and class names
HandleTyped(md, removed1, removed2, type1, type2, obj1, obj2) ==
    IF removed1 \/ removed2 THEN <<>>
    ELSE LET methods1 == _find_methods(md, type1, type2)
             methods2 == _find_methods(md, type2, type1)
         IN  IF methods1 = None /\ methods2 = None THEN <<>>
             ELSE IF methods1 # None
             THEN <<Call(methods1[2], obj1, obj2, "None")>>
             ELSE IF methods2 # None
             THEN <<Call(methods2[2], obj2, obj1, "None")>>
             ELSE <<>>

Handle(md, rm, obj1, obj2) ==
    HandleTyped(md, rm[obj1], rm[obj2], _type(obj1), _type(obj2), obj1, obj2)

\* the six registrations of Game._init_collider, in order
InitColliderCalls ==
    << <<"_cd_ship_meteor", "_ch_ship_meteor", "Ship", "Meteor1">>,
       <<"_cd_ship_meteor", "_ch_ship_meteor", "Ship", "Meteor2">>,
       <<"_cd_ship_meteor", "_ch_ship_meteor", "Ship", "Meteor3">>,
       <<"_cd_bullet_meteor", "_ch_bullet_meteor1", "Bullet", "Meteor1">>,
       <<"_cd_bullet_meteor", "_ch_bullet_meteor2", "Bullet", "Meteor2">>,
       <<"_cd_bullet_meteor", "_ch_bullet_meteor3", "Bullet", "Meteor3">> >>

\* the registry after the first n of a sequence of register_methods calls
RECURSIVE RegisterAll(_, _, _)
RegisterAll(md, regs, n) ==
    IF n = 0 THEN md
    ELSE LET c == regs[n]
         IN  Registered(RegisterAll(md, regs, n - 1), c[1], c[2], c[3], c[4])

\* TRUE when one of the first n calls raises
RECURSIVE AnyRaises(_, _, _)
AnyRaises(md, regs, n) ==
    IF n = 0 THEN FALSE
    ELSE \/ AnyRaises(md, regs, n - 1)
         \/ RegisterRaises(RegisterAll(md, regs, n - 1), regs[n][3], regs[n][4])

(***************************************************************************)
(* Collider actions                                                        *)
(***************************************************************************)
register_methods(detector, handler, type1, type2) ==
    /\ method_dict' = Registered(method_dict, detector, handler, type1, type2)
    /\ op' = <<"register_methods", type1, type2>>
    /\ calls' = <<>>
    /\ ret' = IF RegisterRaises(method_dict, type1, type2) THEN "raise" ELSE "None"
    /\ UNCHANGED <<remove, entVars, lineVars, sweepVars, gameVars, placeVars, shapeVars>>

\* Game._init_collider on a new Collider
_init_collider ==
    /\ method_dict = EmptyDict
    /\ method_dict' = RegisterAll(method_dict, InitColliderCalls, Len(InitColliderCalls))
    /\ op' = <<"_init_collider", "", "">>
    /\ calls' = <<>>
    /\ ret' = IF AnyRaises(method_dict, InitColliderCalls, Len(InitColliderCalls))
              THEN "raise" ELSE "None"
    /\ UNCHANGED <<remove, entVars, lineVars, sweepVars, gameVars, placeVars, shapeVars>>

\* a detector is a callback of the caller: it returns either truth value
collide(obj1, obj2) ==
    \E r \in BOOLEAN :
        LET c == Collide(method_dict, remove, obj1, obj2, r)
        IN  /\ calls' = c.calls
            /\ ret' = c.ret
            /\ op' = <<"collide", obj1, obj2>>
            /\ UNCHANGED <<method_dict, remove, entVars, lineVars, sweepVars, gameVars, placeVars, shapeVars>>

\* a handler is a callback of the caller: like the game's handlers (1012-1038)
\* it may call hit() on its arguments, which may set their remove flag
handle(obj1, obj2) ==
    LET c == Handle(method_dict, remove, obj1, obj2)
    IN  /\ calls' = c
        /\ ret' = "None"
        /\ op' = <<"handle", obj1, obj2>>
        /\ IF c = <<>> THEN remove' = remove
           ELSE \E hit \in SUBSET {c[1].args[1], c[1].args[2]} :
                    remove' = [o \in Objs |-> remove[o] \/ o \in hit]
        /\ UNCHANGED <<method_dict, entVars, lineVars, sweepVars, gameVars, placeVars, shapeVars>>

\* Collider.__init__ (627) and WObject.__init__ (159) of every object
Init ==
    /\ method_dict = EmptyDict
    /\ remove = [o \in Objs |-> FALSE]
    /\ op = <<"__init__", "", "">>
    /\ calls = <<>>
    /\ ret = "None"
    /\ ent = None
    /\ wop = None
    /\ trace = None
    /\ NoLines
    /\ NoSweep
    /\ NoGame
    /\ NoPlace
    /\ NoShape

Next ==
    \/ \E d \in Detectors, h \in Handlers, t1 \in RegTypes, t2 \in RegTypes :
           register_methods(d, h, t1, t2)
    \/ _init_collider
    \/ \E o1 \in Objs, o2 \in Objs : collide(o1, o2)
    \/ \E o1 \in Objs, o2 \in Objs : handle(o1, o2)

Spec == Init /\ [][Next]_vars

(***************************************************************************)
(* Claims about the Collider (specification Spec)                          *)
(***************************************************************************)
\* the registry holds an entry under the key (type1, type2), read directly
HasEntry(md, type1, type2) == type1 \in DOMAIN md /\ type2 \in DOMAIN md[type1]

\* C1: when a rule is registered under (A, B) with A # B, collide on unflagged
\* objects of kinds A and B, passed in either order, invokes that rule's
\* detector exactly once with (objA, objB) and returns the detector's result.
C1_DetectorArgsInRegistrationOrder ==
    \A A \in TypeNames, B \in TypeNames, oA \in Objs, oB \in Objs :
        ( /\ A # B
          /\ HasEntry(method_dict, A, B)
          /\ _type(oA) = A /\ _type(oB) = B
          /\ ~remove[oA] /\ ~remove[oB]
          /\ op[1] = "collide"
          /\ \/ op[2] = oB /\ op[3] = oA
             \/ op[2] = oA /\ op[3] = oB )
        => /\ ret \in {"True", "False"}
           /\ calls = <<Call(method_dict[A][B][1], oA, oB, ret)>>

\* a collide call that passed the objects against the registration order and
\* got TRUE from the detector
C1_Witness ==
    /\ op[1] = "collide"
    /\ op[2] # op[3]
    /\ Len(calls) = 1
    /\ calls[1].args = <<op[3], op[2]>>
    /\ HasEntry(method_dict, _type(op[3]), _type(op[2]))
    /\ ret = "True"

\* C2: register_methods raises whenever the registry holds an entry for
\* (type1, type2) or (type2, type1), and then leaves the registry as it was.
C2_DuplicateRegistrationFails ==
    [][ \A t1 \in TypeNames, t2 \in TypeNames :
          ( /\ op'[1] = "register_methods" /\ op'[2] = t1 /\ op'[3] = t2
            /\ HasEntry(method_dict, t1, t2) \/ HasEntry(method_dict, t2, t1) )
          => ret' = "raise" /\ method_dict' = method_dict ]_vars

\* a registration that failed because of the reversed key alone
C2_Witness ==
    /\ op[1] = "register_methods"
    /\ ret = "raise"
    /\ op[2] # op[3]
    /\ HasEntry(method_dict, op[3], op[2])
    /\ ~HasEntry(method_dict, op[2], op[3])

\* C3: the registry never holds both (K1, K2) and (K2, K1) for K1 # K2.
C3_OneEntryPerUnorderedPair ==
    \A K1 \in TypeNames, K2 \in TypeNames :
        K1 # K2 => ~(HasEntry(method_dict, K1, K2) /\ HasEntry(method_dict, K2, K1))

\* a registry holding (K, K) entries and an entry for a pair K1 # K2, after a
\* registration that failed
C3_Witness ==
    /\ op[1] = "register_methods"
    /\ ret = "raise"
    /\ \E K1 \in RegTypes, K2 \in RegTypes :
          /\ K1 # K2
          /\ HasEntry(method_dict, K1, K1)
          /\ HasEntry(method_dict, K2, K2)
          /\ HasEntry(method_dict, K1, K2)

\* C4: handle on two unflagged objects whose kinds have a rule invokes exactly
\* one handler, the one stored with the detector collide invokes for the same
\* objects, with the objects in the order of the registered key.
C4_HandleMirrorsCollide ==
    [][ \A o1 \in Objs, o2 \in Objs :
          ( /\ op'[1] = "handle" /\ op'[2] = o1 /\ op'[3] = o2
            /\ ~remove[o1] /\ ~remove[o2]
            /\ \/ HasEntry(method_dict, _type(o1), _type(o2))
               \/ HasEntry(method_dict, _type(o2), _type(o1)) )
          => \E a \in {o1, o2}, b \in {o1, o2} :
                /\ {a, b} = {o1, o2}
                /\ HasEntry(method_dict, _type(a), _type(b))
                /\ calls' = <<Call(method_dict[_type(a)][_type(b)][2], a, b, "None")>>
                /\ Collide(method_dict, remove, o1, o2, TRUE).calls
                      = <<Call(method_dict[_type(a)][_type(b)][1], a, b, "True")>>
      ]_vars

\* a handle call that passed the objects against the registration order, whose
\* handler flagged the first object it was given
C4_Witness ==
    /\ op[1] = "handle"
    /\ op[2] # op[3]
    /\ Len(calls) = 1
    /\ calls[1].args = <<op[3], op[2]>>
    /\ remove[op[3]]
    /\ ~remove[op[2]]

\* C5: collide returns false and invokes no detector when either object is
\* flagged for removal.
C5_FlaggedNeverCollide ==
    (op[1] = "collide" /\ (remove[op[2]] \/ remove[op[3]]))
        => calls = <<>> /\ ret = "False"

\* a collide call whose second object alone is flagged and whose kinds have a rule
C5_Witness ==
    /\ op[1] = "collide"
    /\ ~remove[op[2]]
    /\ remove[op[3]]
    /\ \/ HasEntry(method_dict, _type(op[2]), _type(op[3]))
       \/ HasEntry(method_dict, _type(op[3]), _type(op[2]))

\* C6: with no rule under either key order, collide returns false and invokes
\* no detector, and handle invokes no handler and changes neither the objects
\* nor the registry.
C6_UnregisteredPairIsInert ==
    [][ \A o1 \in Objs, o2 \in Objs :
          ( /\ op'[1] \in {"collide", "handle"} /\ op'[2] = o1 /\ op'[3] = o2
            /\ ~HasEntry(method_dict, _type(o1), _type(o2))
            /\ ~HasEntry(method_dict, _type(o2), _type(o1)) )
          => /\ calls' = <<>>
             /\ remove' = remove
             /\ method_dict' = method_dict
             /\ op'[1] = "collide" => ret' = "False"
      ]_vars

\* a handle call on two unflagged objects of an unregistered pair, in a
\* registry that holds a rule for the first object's kind
C6_Witness ==
    /\ op[1] = "handle"
    /\ op[2] # op[3]
    /\ ~remove[op[2]] /\ ~remove[op[3]]
    /\ ~HasEntry(method_dict, _type(op[2]), _type(op[3]))
    /\ ~HasEntry(method_dict, _type(op[3]), _type(op[2]))
    /\ _type(op[2]) \in DOMAIN method_dict
    /\ calls = <<>>

(***************************************************************************)
(* WObject: position and orientation with their histories (144-271)        *)
(*                                                                         *)
(* A Vector2 is modelled by its value.  The operations modelled here build *)
(* a new Vector2 for every value they store (39-45, 203, 223, 511, 614)    *)
(* and change no stored Vector2 in place.                                  *)
(* Coordinates and velocities are whole pixels; local shape points and the *)
(* anchor, which lie in the unit square, are held in tenths.               *)
(***************************************************************************)
Vec(x, y) == [x |-> x, y |-> y]

VecAdd(v1, v2) == Vec(v1.x + v2.x, v1.y + v2.y)

VecSub(v1, v2) == Vec(v1.x - v2.x, v1.y - v2.y)

VecMul(v, scalar) == Vec(v.x * scalar, v.y * scalar)

\* how many past pos/deg an object keeps
state_buffer == 5

\* the window size that window.get_size() returns (pyglet's default window)
WinX == 640
WinY == 480

\* list[i] of a Python list held as a sequence
PyIndex(list, i) == list[i + 1]

\* list.insert(0, x)
ListInsert0(list, x) == <<x>> \o list

\* list.pop()
ListPop(list) == SubSeq(list, 1, Len(list) - 1)

\* a list built by appending x n times
Repeat(x, n) == [i \in 1..n |-> x]

\* to_points: a flat list of coordinates (here in tenths) to a list of vectors
to_points(p_list) ==
    [i \in 1..(Len(p_list) \div 2) |-> Vec(p_list[2 * i - 1], p_list[2 * i])]

init_pos(e, pos) ==
    [e EXCEPT !.pos = pos, !.last_pos = Repeat(pos, state_buffer)]

update_posStoresNew(e, pos) ==
    [e EXCEPT !.last_pos = ListPop(ListInsert0(e.last_pos, pos)), !.pos = pos]

update_pos(e, pos) ==
    [e EXCEPT !.last_pos = ListPop(ListInsert0(e.last_pos, e.pos)), !.pos = pos]

init_deg(e, deg) ==
    [e EXCEPT !.deg = deg, !.last_deg = Repeat(deg, state_buffer)]

update_degNoPop(e, deg) ==
    [e EXCEPT !.last_deg = ListInsert0(e.last_deg, e.deg), !.deg = deg]

update_deg(e, deg) ==
    [e EXCEPT !.last_deg = ListPop(ListInsert0(e.last_deg, e.deg)), !.deg = deg]

\* WObject.__init__: init_pos and init_deg create the fields they assign
WObject_init ==
    LET e0 == [cls |-> "WObject", pos |-> None, last_pos |-> <<>>,
               deg |-> 0, last_deg |-> <<>>,
               vel |-> Vec(0, 0), size |-> Vec(1, 1), remove |-> FALSE,
               points |-> to_points(<<0, 0, 0, 10, 0, 10, 10, 10,
                                      10, 10, 10, 0, 10, 0, 0, 0>>),
               anchor |-> Vec(5, 5)]
    IN  init_deg(init_pos(e0, Vec(0, 0)), 0)

\* the orientation get_point_transformed rotates by (200, 208-211)
DegUsed(e, num0) ==
    LET num == num0 % state_buffer
    IN  IF num > 0 THEN PyIndex(e.last_deg, num - 1) ELSE e.deg

\* the position get_point_transformed translates by (200, 219-222)
PosUsedOffByOne(e, num0) ==
    LET num == num0 % state_buffer
    IN  IF num > 0 THEN PyIndex(e.last_pos, num) ELSE e.pos

PosUsed(e, num0) ==
    LET num == num0 % state_buffer
    IN  IF num > 0 THEN PyIndex(e.last_pos, num - 1) ELSE e.pos

\* sine and cosine of an angle in degrees, at the multiples of 90 degrees
\* (math.sin and math.cos are within 2e-16 of these values there)
Sin(deg) == CASE deg % 360 = 0 -> 0 [] deg % 360 = 90 -> 1
              [] deg % 360 = 180 -> 0 [] deg % 360 = 270 -> -1

Cos(deg) == CASE deg % 360 = 0 -> 1 [] deg % 360 = 90 -> 0
              [] deg % 360 = 180 -> -1 [] deg % 360 = 270 -> 0

\* get_point_transformed(index, num), in tenths of a pixel, for orientations
\* that are multiples of 90 degrees
get_point_transformed(e, index, num) ==
    LET centred == VecSub(PyIndex(e.points, index), e.anchor)
        scaled == Vec(centred.x * e.size.x, centred.y * e.size.y)
        deg == DegUsed(e, num)
        rotated == Vec(scaled.x * Cos(deg) - scaled.y * Sin(deg),
                       scaled.x * Sin(deg) + scaled.y * Cos(deg))
    IN  VecAdd(rotated, VecMul(PosUsed(e, num), 10))

\* deg_to_vel at the multiples of 90 degrees (0 = up, 90 = left), where the
\* normalized vector is a unit vector of an axis (to within 2e-16)
deg_to_vel(deg) ==
    CASE deg = 0 -> Vec(0, 1)
      [] deg = 90 -> Vec(-1, 0)
      [] deg = 180 -> Vec(0, -1)
      [] deg = 270 -> Vec(1, 0)
      [] deg = 360 -> Vec(0, 1)

(***************************************************************************)
(* Specification SpecWObject: the four history operations on one WObject,  *)
(* in any order, with any arguments.                                       *)
(* trace records the arguments: the value of the last init_pos (p_init),   *)
(* the values of the update_pos calls after it (pupd), and the same for    *)
(* init_deg and update_deg (d_init, dupd).                                 *)
(***************************************************************************)
PosVals == {Vec(0, 0), Vec(3, 4)}
DegVals == {0, 90}

W_init_pos(pos) ==
    /\ ent' = init_pos(ent, pos)
    /\ wop' = <<"init_pos", pos>>
    /\ trace' = [trace EXCEPT !.p_init = pos, !.pupd = <<>>]
    /\ UNCHANGED <<colVars, lineVars, sweepVars, gameVars, placeVars, shapeVars>>

W_update_pos(pos) ==
    /\ Len(trace.pupd) < MaxUpdates
    /\ ent' = update_pos(ent, pos)
    /\ wop' = <<"update_pos", pos>>
    /\ trace' = [trace EXCEPT !.pupd = Append(@, pos)]
    /\ UNCHANGED <<colVars, lineVars, sweepVars, gameVars, placeVars, shapeVars>>

W_init_deg(deg) ==
    /\ ent' = init_deg(ent, deg)
    /\ wop' = <<"init_deg", deg>>
    /\ trace' = [trace EXCEPT !.d_init = deg, !.dupd = <<>>]
    /\ UNCHANGED <<colVars, lineVars, sweepVars, gameVars, placeVars, shapeVars>>

W_update_deg(deg) ==
    /\ Len(trace.dupd) < MaxUpdates
    /\ ent' = update_deg(ent, deg)
    /\ wop' = <<"update_deg", deg>>
    /\ trace' = [trace EXCEPT !.dupd = Append(@, deg)]
    /\ UNCHANGED <<colVars, lineVars, sweepVars, gameVars, placeVars, shapeVars>>

InitWObject ==
    /\ method_dict = EmptyDict
    /\ remove = [o \in Objs |-> FALSE]
    /\ op = <<"__init__", "", "">>
    /\ calls = <<>>
    /\ ret = "None"
    /\ ent = WObject_init
    /\ wop = <<"__init__", None>>
    /\ trace = [p_init |-> Vec(0, 0), pupd |-> <<>>, d_init |-> 0, dupd |-> <<>>]
    /\ NoLines
    /\ NoSweep
    /\ NoGame
    /\ NoPlace
    /\ NoShape

NextWObject ==
    \/ \E pos \in PosVals : W_init_pos(pos)
    \/ \E pos \in PosVals : W_update_pos(pos)
    \/ \E deg \in DegVals : W_init_deg(deg)
    \/ \E deg \in DegVals : W_update_deg(deg)

SpecWObject == InitWObject /\ [][NextWObject]_vars

(***************************************************************************)
(* Ship, Bullet and Meteor (456-618)                                       *)
(*                                                                         *)
(* The frame time of update is held in tenths of a second.  The frame      *)
(* times and headings explored are those for which every product below is  *)
(* a whole number and every heading passed to deg_to_vel is a multiple of  *)
(* 90 degrees.  The colour a Meteor computes in update (500-504) and the   *)
(* random outline of a Meteor (464) are drawing data and are left out.     *)
(***************************************************************************)
\* x * time for a time in tenths of a second
TimesTime(x, time) == (x * time) \div 10

VecTimesTime(v, time) == Vec(TimesTime(v.x, time), TimesTime(v.y, time))

\* Ship.__init__(start_pos)
Ship_init(start_pos) ==
    LET w == [WObject_init EXCEPT !.cls = "Ship"]
        e1 == [init_pos(w, start_pos) EXCEPT !.size = Vec(20, 40)]
        e2 == [init_deg(e1, 0) EXCEPT !.vel = Vec(0, 0),
                   !.points = to_points(<<5, 10, 10, 0, 10, 0, 5, 2,
                                          5, 2, 0, 0, 0, 0, 5, 10>>)]
    IN  [cls |-> e2.cls, pos |-> e2.pos, last_pos |-> e2.last_pos,
         deg |-> e2.deg, last_deg |-> e2.last_deg, vel |-> e2.vel,
         size |-> e2.size, remove |-> e2.remove, points |-> e2.points,
         anchor |-> e2.anchor,
         accel |-> 300, turn_speed |-> 200,
         turn_state |-> "None", thrust_state |-> "None"]

\* Ship.turn and Ship.thrust
Ship_turn(e, direction, press) ==
    [e EXCEPT !.turn_state = IF press THEN direction ELSE "None"]

Ship_thrust(e, direction, press) ==
    [e EXCEPT !.thrust_state = IF press THEN direction ELSE "None"]

\* Ship.update(time, window)
Ship_update(e, time) ==
    LET added_vel == VecTimesTime(VecMul(deg_to_vel(e.deg), e.accel), time)
        e1 == IF e.thrust_state # "None"
              THEN IF e.thrust_state = "forward"
                   THEN [e EXCEPT !.vel = VecAdd(e.vel, added_vel)]
                   ELSE IF e.thrust_state = "back"
                   THEN [e EXCEPT !.vel = VecSub(e.vel, added_vel)]
                   ELSE e
              ELSE e
        turned == IF e1.turn_state = "left"
                  THEN update_deg(e1, e1.deg + TimesTime(e1.turn_speed, time))
                  ELSE IF e1.turn_state = "right"
                  THEN update_deg(e1, e1.deg - TimesTime(e1.turn_speed, time))
                  ELSE e1
        e2 == IF e1.turn_state # "None"
              THEN update_deg(turned, turned.deg % 360)
              ELSE e1
        pos == VecAdd(e2.pos, VecTimesTime(e2.vel, time))
    IN  update_pos(e2, Vec(pos.x % WinX, pos.y % WinY))

\* Bullet.__init__(start_pos, start_deg)
Bullet_init(start_pos, start_deg) ==
    LET w == [WObject_init EXCEPT !.cls = "Bullet"]
        e1 == [init_pos(w, start_pos) EXCEPT !.vel = VecMul(deg_to_vel(start_deg), 500)]
    IN  [init_deg(e1, start_deg) EXCEPT !.size = Vec(5, 9),
             !.points = to_points(<<0, 0, 5, 10, 5, 10, 10, 0, 10, 0, 0, 0>>)]

\* Bullet.update(time, window)
Bullet_update(e, time) ==
    LET e1 == update_pos(e, VecAdd(e.pos, VecTimesTime(e.vel, time)))
    IN  IF e1.pos.x < 0 \/ e1.pos.x > WinX \/ e1.pos.y < 0 \/ e1.pos.y > WinY
        THEN [e1 EXCEPT !.remove = TRUE]
        ELSE e1

\* Meteor.__init__(start_pos, start_deg, num_points, size, speed, max_health)
\* with turn_speed the value random.uniform(-20, 20) gave
Meteor_init(cls, start_pos, start_deg, num_points, size, speed, max_health, turn_speed) ==
    LET w == [WObject_init EXCEPT !.cls = cls]
        e1 == [init_pos(w, start_pos) EXCEPT
                   !.vel = VecMul(deg_to_vel(start_deg), speed),
                   !.size = Vec(size, size)]
    IN  [cls |-> e1.cls, pos |-> e1.pos, last_pos |-> e1.last_pos,
         deg |-> e1.deg, last_deg |-> e1.last_deg, vel |-> e1.vel,
         size |-> e1.size, remove |-> e1.remove, anchor |-> e1.anchor,
         num_points |-> num_points, turn_speed |-> turn_speed,
         max_health |-> max_health, health |-> max_health]

Meteor1_init(start_pos, start_deg, turn_speed) ==
    Meteor_init("Meteor1", start_pos, start_deg, 18, 200, 40, 6, turn_speed)

Meteor2_init(start_pos, start_deg, turn_speed) ==
    Meteor_init("Meteor2", start_pos, start_deg, 12, 100, 60, 4, turn_speed)

Meteor3_init(start_pos, start_deg, turn_speed) ==
    Meteor_init("Meteor3", start_pos, start_deg, 8, 40, 80, 2, turn_speed)

\* Meteor.update(time, window); 1.5 * size is (3 * size) / 2
Meteor_update(e, time) ==
    LET e1 == update_deg(e, e.deg + TimesTime(e.turn_speed, time))
        p0 == VecAdd(e1.pos, VecTimesTime(e1.vel, time))
        x1 == IF p0.x < 0 - e1.size.x \div 2
              THEN p0.x + ((3 * e1.size.x) \div 2 + WinX) ELSE p0.x
        x2 == IF x1 > WinX + e1.size.x
              THEN x1 - ((3 * e1.size.x) \div 2 + WinX) ELSE x1
        y1 == IF p0.y < 0 - e1.size.y
              THEN p0.y + ((3 * e1.size.y) \div 2 + WinY) ELSE p0.y
        y2 == IF y1 > WinY + e1.size.y
              THEN y1 - ((3 * e1.size.y) \div 2 + WinY) ELSE y1
    IN  update_pos(e1, Vec(x2, y2))

(***************************************************************************)
(* Specification SpecEntity: one Ship, Bullet or Meteor, constructed as    *)
(* the game constructs it, under key input and per-frame update calls.     *)
(* trace holds the (pos, deg) the entity had at the end of every frame,    *)
(* newest first, and at its construction (the last entry).                 *)
(***************************************************************************)
\* frame times explored, in tenths of a second
ShipFrameTimes == {9}
BulletFrameTimes == {1}
MeteorFrameTimes == {9}

\* Bullet(pos, deg) as add_bullet builds it from a ship heading up, down or left
BulletStarts == {<<Vec(320, 260), 0>>, <<Vec(320, 420), 0>>,
                 <<Vec(320, 220), 180>>, <<Vec(300, 240), 90>>}

\* Meteor positions and headings, as add_meteor1/2/3 draw them
MeteorStartPos == {Vec(2, 100), Vec(600, 470)}
MeteorStartDeg == {0, 90}
MeteorTurnSpeeds == {-20, 10}

Snapshot(e) == [pos |-> e.pos, deg |-> e.deg]

InitEntity ==
    /\ method_dict = EmptyDict
    /\ remove = [o \in Objs |-> FALSE]
    /\ op = <<"__init__", "", "">>
    /\ calls = <<>>
    /\ ret = "None"
    /\ ent \in {Ship_init(Vec(WinX \div 2, WinY \div 2))}
              \cup {Bullet_init(b[1], b[2]) : b \in BulletStarts}
              \cup {Meteor1_init(p, d, t) :
                      p \in MeteorStartPos, d \in MeteorStartDeg, t \in MeteorTurnSpeeds}
              \cup {Meteor2_init(p, d, t) :
                      p \in MeteorStartPos, d \in MeteorStartDeg, t \in MeteorTurnSpeeds}
              \cup {Meteor3_init(p, d, t) :
                      p \in MeteorStartPos, d \in MeteorStartDeg, t \in MeteorTurnSpeeds}
    /\ wop = <<"__init__", None>>
    /\ trace = <<Snapshot(ent)>>
    /\ NoLines
    /\ NoSweep
    /\ NoGame
    /\ NoPlace
    /\ NoShape

\* on_key for the arrow keys: Ship.turn / Ship.thrust (944-955)
E_turn(direction, press) ==
    /\ ent.cls = "Ship"
    /\ ent' = Ship_turn(ent, direction, press)
    /\ wop' = <<"turn", direction>>
    /\ UNCHANGED <<trace, colVars, lineVars, sweepVars, gameVars, placeVars, shapeVars>>

E_thrust(direction, press) ==
    /\ ent.cls = "Ship"
    /\ ent' = Ship_thrust(ent, direction, press)
    /\ wop' = <<"thrust", direction>>
    /\ UNCHANGED <<trace, colVars, lineVars, sweepVars, gameVars, placeVars, shapeVars>>

\* Game.update calls item.update on an item that is not flagged (974-979)
E_update_ship(time) ==
    /\ ent.cls = "Ship"
    /\ ~ent.remove
    /\ Len(trace) <= MaxFrames
    /\ ent' = Ship_update(ent, time)
    /\ wop' = <<"update", time>>
    /\ trace' = <<Snapshot(ent')>> \o trace
    /\ UNCHANGED <<colVars, lineVars, sweepVars, gameVars, placeVars, shapeVars>>

E_update_bullet(time) ==
    /\ ent.cls = "Bullet"
    /\ ~ent.remove
    /\ Len(trace) <= MaxFrames
    /\ ent' = Bullet_update(ent, time)
    /\ wop' = <<"update", time>>
    /\ trace' = <<Snapshot(ent')>> \o trace
    /\ UNCHANGED <<colVars, lineVars, sweepVars, gameVars, placeVars, shapeVars>>

E_update_meteor(time) ==
    /\ ent.cls \in {"Meteor1", "Meteor2", "Meteor3"}
    /\ ~ent.remove
    /\ Len(trace) <= MaxFrames
    /\ ent' = Meteor_update(ent, time)
    /\ wop' = <<"update", time>>
    /\ trace' = <<Snapshot(ent')>> \o trace
    /\ UNCHANGED <<colVars, lineVars, sweepVars, gameVars, placeVars, shapeVars>>

NextEntity ==
    \/ \E d \in {"left", "right"}, press \in BOOLEAN : E_turn(d, press)
    \/ \E d \in {"forward", "back"}, press \in BOOLEAN : E_thrust(d, press)
    \/ \E time \in ShipFrameTimes : E_update_ship(time)
    \/ \E time \in BulletFrameTimes : E_update_bullet(time)
    \/ \E time \in MeteorFrameTimes : E_update_meteor(time)

SpecEntity == InitEntity /\ [][NextEntity]_vars

(***************************************************************************)
(* Claims about the history buffers (specification SpecWObject)            *)
(***************************************************************************)
\* p_j of the update_pos calls since the last init_pos, with p_{-1} = p_init
PArg(j) == IF j = -1 THEN trace.p_init ELSE trace.pupd[j + 1]

\* the same for update_deg and init_deg
DArg(j) == IF j = -1 THEN trace.d_init ELSE trace.dupd[j + 1]

\* a vector turned by 0 or by 90 degrees (x' = -y, y' = x at 90 degrees)
Turned(v, deg) == IF deg = 0 THEN v ELSE Vec(0 - v.y, v.x)

\* the point get_point_transformed is to return, in tenths of a pixel, for the
\* local point at index when it uses position pos and orientation deg
Expected(e, index, pos, deg) ==
    LET local == e.points[index + 1]
        scaled == Vec((local.x - e.anchor.x) * e.size.x,
                      (local.y - e.anchor.y) * e.size.y)
        turned == Turned(scaled, deg)
    IN  Vec(turned.x + 10 * pos.x, turned.y + 10 * pos.y)

\* C7: after k < state_buffer update_pos calls p_0 .. p_{k-1} that follow
\* init_pos(p_init), lag n in 1..k uses p_{k-1-n} (p_{-1} = p_init); with
\* k = 0 every lag 1..state_buffer-1 uses p_init; lag 0 uses the current
\* position, the last value given.  The same for orientations.
C7_LagUsesEarlierArgument ==
    /\ LET k == Len(trace.pupd)
       IN  /\ k < state_buffer => \A n \in 1..k : PosUsed(ent, n) = PArg(k - 1 - n)
           /\ k = 0 => \A n \in 1..(state_buffer - 1) : PosUsed(ent, n) = trace.p_init
           /\ PosUsed(ent, 0) = PArg(k - 1)
    /\ LET k == Len(trace.dupd)
       IN  /\ k < state_buffer => \A n \in 1..k : DegUsed(ent, n) = DArg(k - 1 - n)
           /\ k = 0 => \A n \in 1..(state_buffer - 1) : DegUsed(ent, n) = trace.d_init
           /\ DegUsed(ent, 0) = DArg(k - 1)
    /\ LET kp == Len(trace.pupd)
           kd == Len(trace.dupd)
       IN  (kp < state_buffer /\ kd < state_buffer) =>
               \A index \in 0..(Len(ent.points) - 1) :
                   /\ get_point_transformed(ent, index, 0)
                        = Expected(ent, index, PArg(kp - 1), DArg(kd - 1))
                   /\ \A n \in 1..(IF kp < kd THEN kp ELSE kd) :
                        get_point_transformed(ent, index, n)
                          = Expected(ent, index, PArg(kp - 1 - n), DArg(kd - 1 - n))

\* state_buffer - 1 position updates whose first values differ from each
\* other and from the initial position; the deepest lag reads the initial one
C7_Witness ==
    /\ Len(trace.pupd) = state_buffer - 1
    /\ trace.pupd[1] # trace.p_init
    /\ trace.pupd[2] # trace.pupd[1]
    /\ PosUsed(ent, state_buffer - 1) = trace.p_init
    /\ Len(trace.dupd) \in 1..(state_buffer - 1)
    /\ trace.dupd[1] # trace.d_init

\* C8: both histories always hold exactly state_buffer entries, so every lag
\* 1..state_buffer-1 reads an existing slot.
C8_HistoriesAlwaysFull ==
    /\ Len(ent.last_pos) = state_buffer
    /\ Len(ent.last_deg) = state_buffer
    /\ \A n \in 1..(state_buffer - 1) :
          /\ n \in DOMAIN ent.last_pos
          /\ n \in DOMAIN ent.last_deg

\* more position updates than the history holds, then a re-initialisation of
\* the orientation followed by an orientation update
C8_Witness ==
    /\ Len(trace.pupd) >= state_buffer
    /\ trace.d_init # 0
    /\ Len(trace.dupd) >= 1
    /\ wop[1] = "update_deg"

\* C9: update_pos(new) puts the previous current position in slot 0, moves
\* every older entry one slot down, drops the oldest and makes new the
\* current position; update_deg does the same for orientations.
C9_UpdateShiftsHistory ==
    [][ /\ wop'[1] = "update_pos" =>
             /\ ent'.pos = wop'[2]
             /\ Len(ent'.last_pos) = Len(ent.last_pos)
             /\ ent'.last_pos[1] = ent.pos
             /\ \A i \in 2..Len(ent.last_pos) : ent'.last_pos[i] = ent.last_pos[i - 1]
             /\ ent'.deg = ent.deg /\ ent'.last_deg = ent.last_deg
        /\ wop'[1] = "update_deg" =>
             /\ ent'.deg = wop'[2]
             /\ Len(ent'.last_deg) = Len(ent.last_deg)
             /\ ent'.last_deg[1] = ent.deg
             /\ \A i \in 2..Len(ent.last_deg) : ent'.last_deg[i] = ent.last_deg[i - 1]
             /\ ent'.pos = ent.pos /\ ent'.last_pos = ent.last_pos
      ]_vars

\* an update_pos whose new value differs from the value it pushed into slot 0,
\* on a history whose entries differ
C9_Witness ==
    /\ wop[1] = "update_pos"
    /\ ent.pos # ent.last_pos[1]
    /\ ent.last_pos[1] # ent.last_pos[2]
    /\ ent.last_pos[2] # ent.last_pos[state_buffer]

(***************************************************************************)
(* Claims about the per-frame update (specification SpecEntity)            *)
(***************************************************************************)
\* the (pos, deg) the entity had at the end of the frame n frames before the
\* last one, or at its construction when fewer than n frames have elapsed
FramesAgo(n) == IF n + 1 <= Len(trace) THEN trace[n + 1] ELSE trace[Len(trace)]

\* two angles in degrees that are the same orientation
SameOrientation(d1, d2) == (d1 - d2) % 360 = 0

\* C10: for every entity kind, after any sequence of frames and key input,
\* lag n in 1..state_buffer-1 uses the position and the orientation the entity
\* had at the end of the frame n frames earlier (the initial ones when fewer
\* than n frames have elapsed).
C10_LagIsFramesAgo ==
    \A n \in 1..(state_buffer - 1) :
        /\ PosUsed(ent, n) = FramesAgo(n).pos
        /\ SameOrientation(DegUsed(ent, n), FramesAgo(n).deg)

\* the start and the end of the segment _cd_bullet_meteor sweeps (1004)
_cd_bullet_meteor_line1(bullet) ==
    [start |-> PyIndex(bullet.last_pos, 1), end |-> bullet.pos]

\* the start and the end of the segment _cd_ship_meteor sweeps for the ship
\* point of an index (992-996), in tenths of a pixel
_cd_ship_meteor_line1(ship, ship_point_index) ==
    [start |-> get_point_transformed(ship, ship_point_index, 2),
     end |-> get_point_transformed(ship, ship_point_index, 0)]

\* the entity as it was at the end of the frame before the last one
OneUpdateAgo == [ent EXCEPT !.pos = FramesAgo(1).pos, !.deg = FramesAgo(1).deg]

\* C15: the segment a detector sweeps runs from the state of the moving
\* entity one update before the current one to its current state: for a
\* bullet from its position one update ago to its position, for a ship
\* point from the point transformed with the position and orientation one
\* update ago to the point transformed with the current ones.
C15_SweepFromPreviousSample ==
    /\ ent.cls = "Bullet" =>
           /\ _cd_bullet_meteor_line1(ent).start = FramesAgo(1).pos
           /\ _cd_bullet_meteor_line1(ent).end = ent.pos
    /\ ent.cls = "Ship" =>
           \A index \in 0..(Len(ent.points) - 1) :
               /\ _cd_ship_meteor_line1(ent, index).start
                      = get_point_transformed(OneUpdateAgo, index, 0)
               /\ _cd_ship_meteor_line1(ent, index).end
                      = get_point_transformed(ent, index, 0)

(***************************************************************************)
(* Line (69-130) and near (9-12)                                           *)
(*                                                                         *)
(* A Vector2 handed to Line is an object: heap maps its address to its     *)
(* value, and a Line holds the addresses of its start and its end, so that *)
(* the assignment to start.x and start.y in Line.__init__ is seen through  *)
(* every reference to that object.                                         *)
(* Coordinates are whole numbers of a unit (a tenth of a pixel here, so    *)
(* that 0.1 is 1).  A computed coordinate is the exact fraction n/d that   *)
(* the floating-point division approximates.                               *)
(***************************************************************************)
\* the fraction n/d, d # 0
Q(n, d) == [n |-> n, d |-> d]

Abs(i) == IF i < 0 THEN 0 - i ELSE i

Sgn(i) == IF i < 0 THEN 0 - 1 ELSE IF i > 0 THEN 1 ELSE 0

Max(i, j) == IF i >= j THEN i ELSE j

Min(i, j) == IF i <= j THEN i ELSE j

\* f1 < f2 for fractions
QLess(f1, f2) ==
    f1.n * f2.d * Sgn(f1.d) * Sgn(f2.d) < f2.n * f1.d * Sgn(f1.d) * Sgn(f2.d)

\* 1 / FL_EPS: FL_EPS = 0.0000001192092896 is 2^-23 to the digits written
EpsInv == 8388608

\* near(f1, f2) with k = 1 for fractions: on the common denominator
\* abs(f1 - f2) < FL_EPS * abs(f1 + f2) is diff * EpsInv < sum, and
\* abs(f1 - f2) < FL_MIN holds only for diff = 0
near(f1, f2) ==
    LET diff == Abs(f1.n * f2.d - f2.n * f1.d)
        sum == Abs(f1.n * f2.d + f2.n * f1.d)
    IN  \/ (sum > 0 /\ diff <= (sum - 1) \div EpsInv)
        \/ diff = 0

\* Line.__init__(start, end) on the heap h: the heap it leaves
Line_initHeap(h, start, end) ==
    IF h[start].y = h[end].y /\ h[start].x = h[end].x
    THEN LET h1 == [h EXCEPT ![start].y = h[start].y + 1]
         IN  [h1 EXCEPT ![start].x = h1[start].x + 1]
    ELSE h

\* Line.__init__(start, end): the Line object
Line_init(start, end) == [start |-> start, end |-> end]

\* Line.get_abc
get_abc(h, l) ==
    LET a == h[l.end].y - h[l.start].y
        b == h[l.start].x - h[l.end].x
    IN  [a |-> a, b |-> b, c |-> a * h[l.start].x + b * h[l.start].y]

\* Line.within(point), point a vector of fractions
withinClosed(h, l, point) ==
    LET s == h[l.start]
        e == h[l.end]
    IN  /\ ~QLess(Q(Max(s.x, e.x), 1), point.x) /\ ~QLess(point.x, Q(Min(s.x, e.x), 1))
        /\ ~QLess(Q(Max(s.y, e.y), 1), point.y) /\ ~QLess(point.y, Q(Min(s.y, e.y), 1))

within(h, l, point) ==
    LET s == h[l.start]
        e == h[l.end]
        c1 == IF near(Q(s.x, 1), Q(e.x, 1))
              THEN near(point.x, Q(s.x, 1))
              ELSE /\ QLess(point.x, Q(Max(s.x, e.x), 1))
                   /\ QLess(Q(Min(s.x, e.x), 1), point.x)
        c2 == IF near(Q(s.y, 1), Q(e.y, 1))
              THEN near(point.y, Q(s.y, 1))
              ELSE /\ QLess(point.y, Q(Max(s.y, e.y), 1))
                   /\ QLess(Q(Min(s.y, e.y), 1), point.y)
    IN  c1 /\ c2

\* Line.intersection(line) of the receiver l1
intersectionSwappedX(h, l1, l2) ==
    LET f == get_abc(h, l1)
        g == get_abc(h, l2)
        det == f.a * g.b - g.a * f.b
    IN  IF det = 0 THEN None
        ELSE Vec(Q(g.b * f.c - f.b * g.c, 0 - det), Q(f.a * g.c - g.a * f.c, det))

intersection(h, l1, l2) ==
    LET f == get_abc(h, l1)
        g == get_abc(h, l2)
        det == f.a * g.b - g.a * f.b
    IN  IF det = 0 THEN None
        ELSE Vec(Q(g.b * f.c - f.b * g.c, det), Q(f.a * g.c - g.a * f.c, det))

\* Line.intersect(line) of the receiver l1; a Vector2 is always true
intersectOwnBoxOnly(h, l1, l2) ==
    LET point == intersection(h, l1, l2)
    IN  IF point # None THEN within(h, l1, point) ELSE FALSE

intersect(h, l1, l2) ==
    LET point == intersection(h, l1, l2)
    IN  IF point # None
        THEN within(h, l1, point) /\ within(h, l2, point)
        ELSE FALSE

(***************************************************************************)
(* Specification SpecLine: up to two Lines are constructed, each from two  *)
(* new Vector2 objects or from one new Vector2 passed as start and as end. *)
(* within is applied to the first of them before the second is            *)
(* constructed, and intersection and intersect to the two of them, either  *)
(* one as the receiver.  The vectors of the two Lines are different        *)
(* objects.  lop is <<operation, receiver, argument, result>>.             *)
(***************************************************************************)
\* largest coordinate of a constructor argument, in pixels
GridMax == 2

\* the vectors handed to the constructor, in tenths of a pixel
GridVecs == {Vec(10 * x, 10 * y) : x \in 0..GridMax, y \in 0..GridMax}

\* the points within is asked about: the ends and the midpoint of the
\* segment, and the points one unit beyond its coordinate range on each axis
QVec(v) == Vec(Q(v.x, 1), Q(v.y, 1))

MidPoint(h, l) ==
    Vec(Q(h[l.start].x + h[l.end].x, 2), Q(h[l.start].y + h[l.end].y, 2))

ProbeNames == {"start", "end", "mid", "left", "right", "below", "above"}

Probe(h, l, name) ==
    LET s == h[l.start]
        e == h[l.end]
        mid == MidPoint(h, l)
    IN  CASE name = "start" -> QVec(s)
          [] name = "end" -> QVec(e)
          [] name = "mid" -> mid
          [] name = "left" -> Vec(Q(Min(s.x, e.x) - 1, 1), mid.y)
          [] name = "right" -> Vec(Q(Max(s.x, e.x) + 1, 1), mid.y)
          [] name = "below" -> Vec(mid.x, Q(Min(s.y, e.y) - 1, 1))
          [] name = "above" -> Vec(mid.x, Q(Max(s.y, e.y) + 1, 1))

InitLine ==
    /\ heap = <<>>
    /\ line = <<>>
    /\ lop = <<"none", 0, 0, None>>
    /\ NoCollider
    /\ NoEntity
    /\ NoSweep
    /\ NoGame
    /\ NoPlace
    /\ NoShape

\* Line(start, end) with two new vectors, or Line(v, v) with one
L_Line(sv, ev, same) ==
    /\ Len(line) < 2
    /\ same => sv = ev
    /\ LET start == Len(heap) + 1
           end == IF same THEN start ELSE start + 1
           h0 == IF same THEN Append(heap, sv) ELSE heap \o <<sv, ev>>
       IN  /\ heap' = Line_initHeap(h0, start, end)
           /\ line' = Append(line, Line_init(start, end))
           /\ lop' = <<"Line", start, end, None>>
    /\ UNCHANGED <<colVars, entVars, sweepVars, gameVars, placeVars, shapeVars>>

\* line.within(point)
L_within(i, name) ==
    /\ Len(line) = 1
    /\ i \in DOMAIN line
    /\ lop' = <<"within", i, name, within(heap, line[i], Probe(heap, line[i], name))>>
    /\ UNCHANGED <<heap, line, colVars, entVars, sweepVars, gameVars, placeVars, shapeVars>>

\* line.intersection(other)
L_intersection(i, j) ==
    /\ i \in DOMAIN line
    /\ j \in DOMAIN line
    /\ lop' = <<"intersection", i, j, intersection(heap, line[i], line[j])>>
    /\ UNCHANGED <<heap, line, colVars, entVars, sweepVars, gameVars, placeVars, shapeVars>>

\* line.intersect(other)
L_intersect(i, j) ==
    /\ i \in DOMAIN line
    /\ j \in DOMAIN line
    /\ lop' = <<"intersect", i, j, intersect(heap, line[i], line[j])>>
    /\ UNCHANGED <<heap, line, colVars, entVars, sweepVars, gameVars, placeVars, shapeVars>>

NextLine ==
    \/ \E sv \in GridVecs, ev \in GridVecs, same \in BOOLEAN : L_Line(sv, ev, same)
    \/ \E name \in ProbeNames : L_within(1, name)
    \/ \E i \in 1..2 : L_intersection(i, 3 - i)
    \/ \E i \in 1..2 : L_intersect(i, 3 - i)

SpecLine == InitLine /\ [][NextLine]_vars

(***************************************************************************)
(* Claims about Line                                                       *)
(***************************************************************************)
\* the direction of a segment and the side of its line a point lies on
Cross(ux, uy, vx, vy) == ux * vy - uy * vx

Side(h, l, p) ==
    Sgn(Cross(h[l.end].x - h[l.start].x, h[l.end].y - h[l.start].y,
              p.x - h[l.start].x, p.y - h[l.start].y))

\* the two segments cross at a point that is an end of neither
ProperCrossing(h, l1, l2) ==
    /\ Side(h, l1, h[l2.start]) * Side(h, l1, h[l2.end]) = 0 - 1
    /\ Side(h, l2, h[l1.start]) * Side(h, l2, h[l1.end]) = 0 - 1

\* the two segments have the same direction, or one of them is a point
Parallel(h, l1, l2) ==
    Cross(h[l1.end].x - h[l1.start].x, h[l1.end].y - h[l1.start].y,
          h[l2.end].x - h[l2.start].x, h[l2.end].y - h[l2.start].y) = 0

QEq(f1, f2) == f1.n * f2.d = f2.n * f1.d

\* C17: for a segment with start # end, within is true of its start, of its
\* end and of its midpoint, and false of a point whose x or y lies outside
\* the closed range of the two ends on that axis.
C17_WithinEndsAndMidpoint ==
    lop[1] = "within" =>
        LET l == line[lop[2]]
        IN  heap[l.start] # heap[l.end] =>
                /\ lop[3] \in {"start", "end", "mid"} => lop[4] = TRUE
                /\ lop[3] \in {"left", "right", "below", "above"} => lop[4] = FALSE

\* C18: a.intersect(b) is true when the segments cross at a point inside
\* both, false when their lines meet only outside both boxes, false when
\* they are parallel, always within_a(P) and within_b(P) for the point P
\* that intersection returns, and equal to b.intersect(a).
C18_IntersectIsCrossingInBothBoxes ==
    lop[1] = "intersect" =>
        LET a == line[lop[2]]
            b == line[lop[3]]
            P == intersection(heap, a, b)
        IN  /\ ProperCrossing(heap, a, b) => lop[4] = TRUE
            /\ (P # None /\ ~withinClosed(heap, a, P) /\ ~withinClosed(heap, b, P))
                   => lop[4] = FALSE
            /\ Parallel(heap, a, b) => lop[4] = FALSE
            /\ lop[4] = (P # None /\ within(heap, a, P) /\ within(heap, b, P))
            /\ lop[4] = intersect(heap, b, a)

C18_Witness ==
    /\ lop[1] = "intersect"
    /\ lop[4] = TRUE
    /\ ProperCrossing(heap, line[lop[2]], line[lop[3]])

\* C19: intersection returns no point exactly when
\* det = A1*B2 - A2*B1 is 0, and otherwise the point
\* x = (B2*C1 - B1*C2)/det, y = (A1*C2 - A2*C1)/det, which lies on both lines
\* and is the same whichever of the two Lines is the receiver.
C19_IntersectionIsCramer ==
    lop[1] = "intersection" =>
        LET l1 == line[lop[2]]
            l2 == line[lop[3]]
            A1 == heap[l1.end].y - heap[l1.start].y
            B1 == heap[l1.start].x - heap[l1.end].x
            C1 == A1 * heap[l1.start].x + B1 * heap[l1.start].y
            A2 == heap[l2.end].y - heap[l2.start].y
            B2 == heap[l2.start].x - heap[l2.end].x
            C2 == A2 * heap[l2.start].x + B2 * heap[l2.start].y
            det == A1 * B2 - A2 * B1
            X == B2 * C1 - B1 * C2
            Y == A1 * C2 - A2 * C1
            other == intersection(heap, l2, l1)
        IN  /\ (lop[4] = None) = (det = 0)
            /\ det # 0 =>
                   /\ QEq(lop[4].x, Q(X, det))
                   /\ QEq(lop[4].y, Q(Y, det))
                   /\ A1 * X + B1 * Y = C1 * det
                   /\ A2 * X + B2 * Y = C2 * det
                   /\ other # None
                   /\ QEq(lop[4].x, other.x)
                   /\ QEq(lop[4].y, other.y)

C19_Witness ==
    /\ lop[1] = "intersection"
    /\ lop[4] # None
    /\ lop[4].x.n # 0

\* C20: every Line the constructor has produced has start # end, whether it
\* was given two vector objects or one object as start and as end.
C20_LineIsNeverAPoint ==
    \A i \in DOMAIN line : heap[line[i].start] # heap[line[i].end]

(***************************************************************************)
(* The bullet-meteor detector (1002-1008) with BoundingCircle (132-141),   *)
(* WObject.get_lines (233-240) and Meteor.generate_points (481-494)        *)
(*                                                                         *)
(* Outlines have their vertices at multiples of 90 degrees, where          *)
(* deg_to_vel is exact, and lengths that are whole tenths, so that every   *)
(* transformed point is a whole pixel and the Line arithmetic on whole     *)
(* pixels is the arithmetic of the floating-point code without rounding.   *)
(***************************************************************************)
\* Meteor.generate_points with lengths[i + 1] the value, in tenths, that
\* random.uniform(0.7, 1) / 2 gave for vertex i
generate_points(num_points, lengths) ==
    LET interval == 360 \div num_points
        p(i) == VecAdd(VecMul(deg_to_vel(i * interval), lengths[i + 1]), Vec(5, 5))
    IN  [k \in 1..(2 * num_points) |-> p((k \div 2) % num_points)]

\* Meteor.bounding_circle
bounding_circle(meteor) == [center |-> meteor.pos, radius |-> meteor.size.x \div 2]

\* BoundingCircle.inside, with abs the squared magnitude (35-36)
inside(circle, point) ==
    LET d == VecSub(point, circle.center)
    IN  d.x * d.x + d.y * d.y < circle.radius * circle.radius

\* a transformed point, which is a whole number of pixels, in pixels
Pixels(v) == Vec(v.x \div 10, v.y \div 10)

\* WObject.get_lines: the two ends of every segment, in pixels
get_lines(e) ==
    [i \in 1..(Len(e.points) \div 2) |->
        <<Pixels(get_point_transformed(e, (i - 1) * 2, 0)),
          Pixels(get_point_transformed(e, (i - 1) * 2 + 1, 0))>>]

\* Game._cd_bullet_meteor for a bullet with last_pos[1] # pos, for which
\* Line.__init__ changes no vector
_cd_bullet_meteor(bullet, meteor) ==
    IF inside(bounding_circle(meteor), bullet.pos)
    THEN LET line1 == _cd_bullet_meteor_line1(bullet)
         IN  \E i \in DOMAIN get_lines(meteor) :
                 LET h == <<line1.start, line1.end,
                            get_lines(meteor)[i][1], get_lines(meteor)[i][2]>>
                 IN  intersect(Line_initHeap(Line_initHeap(h, 3, 4), 1, 2),
                               Line_init(1, 2), Line_init(3, 4))
    ELSE FALSE

(***************************************************************************)
(* Specification SpecSweep: a Bullet (ent) is created at a sample point    *)
(* and moved from sample to sample by update_pos, as Bullet.update moves   *)
(* it; the detector is applied to it and a Meteor of size 200 at           *)
(* (500, 500).  trace holds the bullet's positions, newest first.          *)
(***************************************************************************)
\* update_pos calls explored on the bullet
MaxSamples == 2

\* the positions the bullet is sampled at
SamplePoints == {Vec(500, 600), Vec(500, 450), Vec(0, 0), Vec(10, 10),
                 Vec(460, 600), Vec(460, 450)}

\* the vertex lengths of the outlines, in tenths of the size: 0.4 and 0.5
OutlineLengths == {<<t, 4, b, 4>> : t \in {4, 5}, b \in {4, 5}}

\* a Meteor of four vertices and size 200 with the given outline, turned to
\* the orientation deg by its update
SweepMeteor(lengths, deg) ==
    LET m == Meteor_init("Meteor", Vec(500, 500), 0, 4, 200, 40, 6, 0)
    IN  update_deg(m, deg) @@ [points |-> generate_points(4, lengths)]

InitSweep ==
    /\ ent \in {Bullet_init(p, 180) : p \in SamplePoints}
    /\ wop = <<"__init__", None>>
    /\ trace = <<Snapshot(ent)>>
    /\ met \in {SweepMeteor(l, d) : l \in OutlineLengths, d \in {0, 90}}
    /\ cd = None
    /\ NoCollider
    /\ NoLines
    /\ NoGame
    /\ NoPlace
    /\ NoShape

\* Bullet.update: update_pos(pos + vel * time) (558)
S_update_pos(pos) ==
    /\ Len(trace) <= MaxSamples
    /\ ent' = update_pos(ent, pos)
    /\ wop' = <<"update_pos", pos>>
    /\ trace' = <<Snapshot(ent')>> \o trace
    /\ cd' = None
    /\ UNCHANGED <<met, colVars, lineVars, gameVars, placeVars, shapeVars>>

\* collide calling the detector registered for Bullet and Meteor
S_cd_bullet_meteor ==
    /\ PyIndex(ent.last_pos, 1) # ent.pos
    /\ cd' = <<"_cd_bullet_meteor", _cd_bullet_meteor(ent, met)>>
    /\ UNCHANGED <<ent, wop, trace, met, colVars, lineVars, gameVars, placeVars, shapeVars>>

NextSweep ==
    \/ \E pos \in SamplePoints : S_update_pos(pos)
    \/ S_cd_bullet_meteor

SpecSweep == InitSweep /\ [][NextSweep]_vars

\* C16: for an obstacle whose outline is a closed chain of segments around
\* (500, 500) within radius 100, with a bounding circle of radius 100, the
\* detector reports a point sampled at (500, 600) and next at (500, 450) as
\* colliding, and a point sampled at (0, 0) and next at (10, 10) as not
\* colliding.
C16_EndToEndDetection ==
    (cd # None /\ Len(trace) >= 2) =>
        /\ (trace[2].pos = Vec(500, 600) /\ trace[1].pos = Vec(500, 450))
               => cd[2] = TRUE
        /\ (trace[2].pos = Vec(0, 0) /\ trace[1].pos = Vec(10, 10))
               => cd[2] = FALSE

(***************************************************************************)
(* Game (686-1038)                                                         *)
(*                                                                         *)
(* The objects of the game are numbered; objs maps the number of an object *)
(* to its class, its remove flag and, for a Meteor, its health.  A Python  *)
(* list is an object too: L holds the list objects made so far and         *)
(* items is the index of the one self.items refers to, so that a loop      *)
(* which iterates a list object goes on iterating that object after        *)
(* remove_all_items has bound self.items to a new one.                     *)
(* Positions are not held: what Bullet.update finds about the window and   *)
(* what the two detectors return are inputs of the frame.                  *)
(*                                                                         *)
(* The operators below take and return the state s of one handler call:    *)
(* the fields of the Game, the objects, the list objects, whether an       *)
(* exception has been raised (raised), and the log of the call.            *)
(***************************************************************************)
\* the reference of an attribute that is None or not assigned yet
NoObj == 0

Range(list) == {list[i] : i \in DOMAIN list}

\* list.remove(x) for a list that holds x
ListRemove(list, x) ==
    LET k == CHOOSE i \in DOMAIN list : list[i] = x /\ \A j \in 1..(i - 1) : list[j] # x
    IN  SubSeq(list, 1, k - 1) \o SubSeq(list, k + 1, Len(list))

\* the number given to the next object constructed
FreshId(objs) ==
    CHOOSE i \in 1..(Cardinality(DOMAIN objs) + 1) :
        /\ i \notin DOMAIN objs
        /\ \A j \in 1..(i - 1) : j \in DOMAIN objs

\* WObject.__init__ (159: remove = False) of an object of a class
Construct(s, id, cls, health) ==
    [s EXCEPT !.objs = (id :> [cls |-> cls, remove |-> FALSE, health |-> health,
                               hits |-> 0]) @@ @]

add_item(s, item) == [s EXCEPT !.L[s.items] = Append(@, item)]

\* list.remove raises ValueError when the item is not in the list
remove_item(s, item) ==
    IF item \notin Range(s.L[s.items])
    THEN [s EXCEPT !.raised = TRUE]
    ELSE [s EXCEPT !.L[s.items] = ListRemove(@, item),
                   !.bullet = IF item = s.bullet THEN NoObj ELSE @]

\* self.items = []: a new list object
remove_all_items(s) ==
    [s EXCEPT !.L = Append(@, <<>>), !.items = Len(s.L) + 1]

\* Font(...) followed by add_item
AddFont(s) ==
    LET id == FreshId(s.objs)
    IN  add_item(Construct(s, id, "Font", 0), id)

add_to_score(s, num) == [s EXCEPT !.score = @ + num * s.level]

_init_start(s) ==
    AddFont(AddFont(AddFont(remove_all_items([s EXCEPT !.state = "start"]))))

_init_level(s) ==
    AddFont(remove_all_items([s EXCEPT !.level = @ + 1, !.state = "level"]))

add_ship(s) ==
    LET id == FreshId(s.objs)
    IN  add_item([Construct(s, id, "Ship", 0) EXCEPT !.ship = id], id)

\* Meteor1, Meteor2 or Meteor3 (pos, deg) followed by add_item and
\* self.meteors.append, count times
RECURSIVE add_meteors(_, _, _, _)
add_meteors(s, cls, max_health, count) ==
    IF count = 0 THEN s
    ELSE LET id == FreshId(s.objs)
             s1 == add_item(Construct(s, id, cls, max_health), id)
         IN  add_meteors([s1 EXCEPT !.meteors = Append(@, id)], cls, max_health, count - 1)

\* max_health of the three Meteor classes (527, 533, 539)
max_health(cls) ==
    CASE cls = "Meteor1" -> 6
      [] cls = "Meteor2" -> 4
      [] cls = "Meteor3" -> 2

add_meteor1(s) == add_meteors(s, "Meteor1", max_health("Meteor1"), s.level)

add_meteor2(s) == add_meteors(s, "Meteor2", max_health("Meteor2"), 3)

add_meteor3(s) == add_meteors(s, "Meteor3", max_health("Meteor3"), 3)

\* a start of play that keeps the meteors tracked before
_init_playKeepsMeteors(s) ==
    LET s1 == [remove_all_items(s) EXCEPT !.bullet = NoObj]
        id == FreshId(s1.objs)
        s2 == add_item([Construct(s1, id, "Font", 0) EXCEPT !.score_text = id], id)
        s3 == [add_to_score(s2, 0) EXCEPT !.state = "play"]
    IN  add_meteor1(add_ship(s3))

_init_play(s) ==
    LET s1 == [remove_all_items(s) EXCEPT !.meteors = <<>>, !.bullet = NoObj]
        id == FreshId(s1.objs)
        s2 == add_item([Construct(s1, id, "Font", 0) EXCEPT !.score_text = id], id)
        s3 == [add_to_score(s2, 0) EXCEPT !.state = "play"]
    IN  add_meteor1(add_ship(s3))

_init_game_over(s) ==
    LET s1 == remove_all_items([s EXCEPT !.level = 1, !.score = 0, !.destroyed = 0])
    IN  add_item(AddFont([s1 EXCEPT !.state = "game_over"]), s.score_text)

\* a fire key that does not look at self.bullet
add_bulletAlways(s) ==
    LET id == FreshId(s.objs)
    IN  add_item([Construct(s, id, "Bullet", 0) EXCEPT !.bullet = id], id)

add_bullet(s) ==
    IF s.bullet = NoObj
    THEN LET id == FreshId(s.objs)
         IN  add_item([Construct(s, id, "Bullet", 0) EXCEPT !.bullet = id], id)
    ELSE s

\* a hit that flags nothing
hitLeavesFlag(s, obj) == s

\* Ship.hit and Bullet.hit
hit(s, obj) == [s EXCEPT !.objs[obj].remove = TRUE]

\* a hit that takes two points of health
Meteor_hitByTwo(s, meteor) ==
    LET health == s.objs[meteor].health - 2
    IN  [s EXCEPT !.objs[meteor].health = health,
                  !.objs[meteor].hits = @ + 1,
                  !.objs[meteor].remove = IF health = 0 THEN TRUE ELSE @]

\* Meteor.hit; hits counts the calls of hit on the object (not program
\* state)
Meteor_hit(s, meteor) ==
    LET health == s.objs[meteor].health - 1
    IN  [s EXCEPT !.objs[meteor].health = health,
                  !.objs[meteor].hits = @ + 1,
                  !.objs[meteor].remove = IF health = 0 THEN TRUE ELSE @]

\* self.meteors.remove(meteor), which raises ValueError for a meteor that
\* is not in the list; destroyed counts the meteors removed from it since
\* the game last started from level 1
meteors_remove(s, meteor) ==
    IF meteor \notin Range(s.meteors)
    THEN [s EXCEPT !.raised = TRUE]
    ELSE [s EXCEPT !.meteors = ListRemove(@, meteor), !.destroyed = @ + 1]

\* a handler that ends the level and leaves the ship as it is
_ch_ship_meteorEndsLevel(s, ship, meteor) == _init_level(s)

_ch_ship_meteor(s, ship, meteor) == hit(s, ship)

_ch_bullet_meteor1(s, bullet, meteor) ==
    LET s1 == hit(Meteor_hit(s, meteor), bullet)
        s2 == meteors_remove(s1, meteor)
    IN  IF s1.objs[meteor].remove
        THEN IF s2.raised THEN s2 ELSE add_meteor2(add_to_score(s2, 25))
        ELSE s1

_ch_bullet_meteor2(s, bullet, meteor) ==
    LET s1 == hit(Meteor_hit(s, meteor), bullet)
        s2 == meteors_remove(s1, meteor)
    IN  IF s1.objs[meteor].remove
        THEN IF s2.raised THEN s2 ELSE add_meteor3(add_to_score(s2, 50))
        ELSE s1

\* a handler that ends the level with every Meteor3 destroyed
_ch_bullet_meteor3Always(s, bullet, meteor) ==
    LET s1 == hit(Meteor_hit(s, meteor), bullet)
        s2 == meteors_remove(s1, meteor)
        s3 == add_to_score(s2, 100)
    IN  IF s1.objs[meteor].remove
        THEN IF s2.raised THEN s2 ELSE _init_level(s3)
        ELSE s1

_ch_bullet_meteor3(s, bullet, meteor) ==
    LET s1 == hit(Meteor_hit(s, meteor), bullet)
        s2 == meteors_remove(s1, meteor)
        s3 == add_to_score(s2, 100)
    IN  IF s1.objs[meteor].remove
        THEN IF s2.raised THEN s2
             ELSE IF Len(s3.meteors) = 0 THEN _init_level(s3) ELSE s3
        ELSE s1

\* the handler of a name applied to its two arguments
ApplyHandler(s, fn, a, b) ==
    CASE fn = "_ch_ship_meteor" -> _ch_ship_meteor(s, a, b)
      [] fn = "_ch_bullet_meteor1" -> _ch_bullet_meteor1(s, a, b)
      [] fn = "_ch_bullet_meteor2" -> _ch_bullet_meteor2(s, a, b)
      [] fn = "_ch_bullet_meteor3" -> _ch_bullet_meteor3(s, a, b)

\* the registry Game._init_collider builds
GameRegistry == RegisterAll(EmptyDict, InitColliderCalls, Len(InitColliderCalls))

\* what the detector invoked for a pair returns in this frame: o.ship_hit
\* are the meteors the ship has run into and o.bullet_hit the meteors the
\* bullet has run into
Detects(s, o, obj1, obj2) ==
    \/ /\ s.objs[obj1].cls = "Ship" /\ obj2 \in o.ship_hit
    \/ /\ s.objs[obj2].cls = "Ship" /\ obj1 \in o.ship_hit
    \/ /\ s.objs[obj1].cls = "Bullet" /\ obj2 \in o.bullet_hit
    \/ /\ s.objs[obj2].cls = "Bullet" /\ obj1 \in o.bullet_hit

\* item.update(frame_time, window): Bullet.update flags a bullet that has
\* left the window (556-557), no other update touches a flag or a list
item_update(s, item, o) ==
    [s EXCEPT !.updated = Append(@, item),
              !.objs[item].remove =
                  IF s.objs[item].cls = "Bullet" /\ o.bullet_off THEN TRUE ELSE @]

\* the first loop of Game.update (973-979) from position i of the list
\* object l it iterates
RECURSIVE update_pass(_, _, _, _)
update_pass(s, l, i, o) ==
    IF s.raised \/ i >= Len(s.L[l]) THEN s
    ELSE LET item == s.L[l][i + 1]
         IN  IF s.objs[item].remove
             THEN LET s1 == remove_item(s, item)
                  IN  IF ~s1.raised /\ item = s1.ship
                      THEN update_pass(_init_game_over(s1), l, i + 1, o)
                      ELSE update_pass(s1, l, i + 1, o)
             ELSE update_pass(item_update(s, item, o), l, i + 1, o)

\* one call made in the collision phase, as it is logged: the function,
\* its arguments, what it returned ("raise" for an exception), the
\* arguments it flagged, the state of the game when it was called and the
\* length of Game.meteors when it returned
Event(fn, a, b, result, flagged, state, tracked) ==
    [fn |-> fn, args |-> <<a, b>>, result |-> result, flagged |-> flagged,
     state |-> state, tracked |-> tracked]

CallEvents(calls_made, state, tracked) ==
    [k \in DOMAIN calls_made |->
        Event(calls_made[k].fn, calls_made[k].args[1], calls_made[k].args[2],
              calls_made[k].result, {}, state, tracked)]

\* collider.handle(item1, item2) (986)
handle_pair(s, item1, item2) ==
    LET h == HandleTyped(GameRegistry, s.objs[item1].remove, s.objs[item2].remove,
                         s.objs[item1].cls, s.objs[item2].cls, item1, item2)
        s1 == [s EXCEPT !.events = Append(@, Event("handle", item1, item2, "None", {}, s.state,
                                                   Len(s.meteors)))]
    IN  IF h = <<>> THEN s1
        ELSE LET a == h[1].args[1]
                 b == h[1].args[2]
                 s2 == ApplyHandler(s1, h[1].fn, a, b)
                 flagged == {x \in {a, b} : s2.objs[x].remove /\ ~s1.objs[x].remove}
             IN  [s2 EXCEPT !.events =
                     Append(@, Event(h[1].fn, a, b, IF s2.raised THEN "raise" ELSE "None",
                                     flagged, s1.state, Len(s2.meteors)))]

\* a test of a pair that leaves out the pairs with a flagged item
collide_pairSkipFlagged(s, item1, item2, o) ==
    IF s.objs[item1].remove \/ s.objs[item2].remove THEN s
    ELSE LET c == CollideTyped(GameRegistry, FALSE, FALSE,
                               s.objs[item1].cls, s.objs[item2].cls, item1, item2,
                               Detects(s, o, item1, item2))
             s1 == [s EXCEPT !.events = @ \o CallEvents(c.calls, s.state, Len(s.meteors))
                                          \o <<Event("collide", item1, item2, c.ret, {}, s.state,
                                                Len(s.meteors))>>]
         IN  IF c.ret = "True" THEN handle_pair(s1, item1, item2) ELSE s1

\* a test of a pair that does not look at the remove flags
collide_pairIgnoreFlags(s, item1, item2, o) ==
    LET c == CollideTyped(GameRegistry, FALSE, FALSE,
                          s.objs[item1].cls, s.objs[item2].cls, item1, item2,
                          Detects(s, o, item1, item2))
        s1 == [s EXCEPT !.events = @ \o CallEvents(c.calls, s.state, Len(s.meteors))
                                     \o <<Event("collide", item1, item2, c.ret, {}, s.state,
                                                Len(s.meteors))>>]
    IN  IF c.ret = "True" THEN handle_pair(s1, item1, item2) ELSE s1

\* if self.collider.collide(item1, item2): self.collider.handle(item1, item2)
collide_pair(s, item1, item2, o) ==
    LET c == CollideTyped(GameRegistry, s.objs[item1].remove, s.objs[item2].remove,
                          s.objs[item1].cls, s.objs[item2].cls, item1, item2,
                          Detects(s, o, item1, item2))
        s1 == [s EXCEPT !.events = @ \o CallEvents(c.calls, s.state, Len(s.meteors))
                                     \o <<Event("collide", item1, item2, c.ret, {}, s.state,
                                                Len(s.meteors))>>]
    IN  IF c.ret = "True" THEN handle_pair(s1, item1, item2) ELSE s1

\* the inner loop (982-986) from position j of the list object l2
RECURSIVE sweep_inner(_, _, _, _, _)
sweep_inner(s, item1, l2, j, o) ==
    IF s.raised \/ j >= Len(s.L[l2]) THEN s
    ELSE LET item2 == s.L[l2][j + 1]
         IN  IF item1 # item2
             THEN sweep_inner(collide_pair(s, item1, item2, o), item1, l2, j + 1, o)
             ELSE sweep_inner(s, item1, l2, j + 1, o)

\* the outer loop (981) from position i of the list object l; the inner
\* loop iterates the list object self.items refers to when it starts
RECURSIVE sweep_outer(_, _, _, _)
sweep_outer(s, l, i, o) ==
    IF s.raised \/ i >= Len(s.L[l]) THEN s
    ELSE sweep_outer(sweep_inner(s, s.L[l][i + 1], s.items, 0, o), l, i + 1, o)

\* Game.update(frame_time): the state after the first loop (973-979), and
\* the state after the rest of the call (980-986) from there
update_first(s, o) == update_pass(s, s.items, 0, o)

update_rest(s1, o) ==
    IF ~s1.raised /\ s1.state = "play" THEN sweep_outer(s1, s1.items, 0, o) ELSE s1

\* Game.on_key(symbol, modifiers, press) for a key press of ENTER or SPACE
on_key(s, symbol) ==
    IF symbol = "ENTER"
    THEN IF s.state = "start" THEN _init_play(s)
         ELSE IF s.state = "game_over" THEN _init_start(s)
         ELSE IF s.state = "level" THEN _init_play(s)
         ELSE s
    ELSE IF symbol = "SPACE"
    THEN IF s.state = "play" THEN add_bullet(s) ELSE s
    ELSE s

(***************************************************************************)
(* Specification SpecGame: the Game after __init__, under key presses      *)
(* (ENTER, SPACE) and update calls.  Each handler runs to its end in one   *)
(* step.  frame is the log of the last handler: for update, the list and   *)
(* the flagged items it started with, the items whose update it invoked,   *)
(* the list and the state after its first loop, and the calls of the       *)
(* collision phase in order.  An exception raised by update ends the       *)
(* program (game.raised).                                                  *)
(***************************************************************************)
\* the meteors destroyed since the game last started from level 1; a level
\* has 13 * level meteors
MaxDestroyed == 13

\* the state of a handler call that starts in the state g of the Game
BeginCall(g) ==
    [objs |-> g.objs, L |-> <<g.items>>, items |-> 1, meteors |-> g.meteors,
     state |-> g.state, level |-> g.level, score |-> g.score, ship |-> g.ship,
     bullet |-> g.bullet, score_text |-> g.score_text, raised |-> FALSE,
     destroyed |-> g.destroyed, updated |-> <<>>, events |-> <<>>]

\* the state of the Game when the handler call has ended: the objects that
\* can no longer be reached are dropped and the others are numbered anew, in
\* the order in which items, meteors, ship, bullet and score_text refer to
\* them (the number of an object is only its identity)
EndCall(s) ==
    LET all == s.L[s.items] \o s.meteors \o <<s.ship, s.bullet, s.score_text>>
        firsts == {i \in DOMAIN all :
                      all[i] # NoObj /\ \A j \in 1..(i - 1) : all[j] # all[i]}
        Renumber(x) ==
            IF x = NoObj THEN NoObj
            ELSE LET p == CHOOSE i \in firsts : all[i] = x
                 IN  Cardinality({i \in firsts : i <= p})
        Old(n) == all[CHOOSE i \in firsts : Renumber(all[i]) = n]
    IN  [objs |-> [n \in 1..Cardinality(firsts) |-> s.objs[Old(n)]],
         items |-> [i \in DOMAIN s.L[s.items] |-> Renumber(s.L[s.items][i])],
         meteors |-> [i \in DOMAIN s.meteors |-> Renumber(s.meteors[i])],
         state |-> s.state, level |-> s.level, score |-> s.score,
         ship |-> Renumber(s.ship), bullet |-> Renumber(s.bullet),
         score_text |-> Renumber(s.score_text), raised |-> s.raised,
         destroyed |-> s.destroyed]

Flagged(objs, list) == {x \in Range(list) : objs[x].remove}

Log(handler, g, first, whole) ==
    [handler |-> handler,
     start_items |-> g.items,
     start_state |-> g.state,
     start_level |-> g.level,
     start_flagged |-> Flagged(g.objs, g.items),
     updated |-> first.updated,
     pass_raised |-> first.raised,
     pass_items |-> first.L[first.items],
     pass_state |-> first.state,
     events |-> whole.events,
     raised |-> whole.raised]

\* Game.__init__ (688-701)
Game_init ==
    _init_start([objs |-> <<>>, L |-> << <<>> >>, items |-> 1, meteors |-> <<>>,
                 state |-> "start", level |-> 1, score |-> 0, ship |-> NoObj,
                 bullet |-> NoObj, score_text |-> NoObj, raised |-> FALSE,
                 destroyed |-> 0, updated |-> <<>>, events |-> <<>>])

InitGame ==
    /\ game = EndCall(Game_init)
    /\ frame = Log("__init__", game, Game_init, Game_init)
    /\ method_dict = GameRegistry
    /\ remove = None
    /\ op = None
    /\ calls = None
    /\ ret = None
    /\ NoEntity
    /\ NoLines
    /\ NoSweep
    /\ NoPlace
    /\ NoShape

\* the inputs of a frame: whether the bullet has left the window, the
\* meteors the ship runs into and the meteors the bullet runs into, each
\* among the first and the last of the meteors in the list that are not
\* flagged
LiveMeteors(g) ==
    {i \in DOMAIN g.items :
        /\ g.objs[g.items[i]].cls \in {"Meteor1", "Meteor2", "Meteor3"}
        /\ ~g.objs[g.items[i]].remove}

Targets(g) ==
    {g.items[i] : i \in {j \in LiveMeteors(g) :
                             \/ \A k \in LiveMeteors(g) : j <= k
                             \/ \A k \in LiveMeteors(g) : j >= k}}

Inputs(g) ==
    LET has_ship == g.state = "play" /\ g.ship \in Range(g.items) /\ ~g.objs[g.ship].remove
        has_bullet == g.state = "play" /\ g.bullet \in Range(g.items)
                          /\ ~g.objs[g.bullet].remove
    IN  [bullet_off : IF has_bullet THEN BOOLEAN ELSE {FALSE},
         ship_hit : IF has_ship THEN SUBSET Targets(g) ELSE {{}},
         bullet_hit : IF has_bullet THEN SUBSET Targets(g) ELSE {{}}]

G_on_key(symbol) ==
    /\ ~game.raised
    /\ LET s == on_key(BeginCall(game), symbol)
       IN  /\ game' = EndCall(s)
           /\ frame' = Log("on_key", game, s, s)
    /\ UNCHANGED <<colVars, entVars, lineVars, sweepVars, placeVars, shapeVars>>

G_update(o) ==
    /\ ~game.raised
    /\ LET first == update_first(BeginCall(game), o)
           whole == update_rest(first, o)
       IN  /\ whole.destroyed <= MaxDestroyed
           /\ game' = EndCall(whole)
           /\ frame' = Log("update", game, first, whole)
    /\ UNCHANGED <<colVars, entVars, lineVars, sweepVars, placeVars, shapeVars>>

NextGame ==
    \/ \E symbol \in {"ENTER", "SPACE"} : G_on_key(symbol)
    \/ \E o \in Inputs(game) : G_update(o)

SpecGame == InitGame /\ [][NextGame]_vars

(***************************************************************************)
(* Claims about Game.update (specification SpecGame)                       *)
(***************************************************************************)
\* the last handler was update and its first loop ran to its end
PassEnded == frame.handler = "update" /\ ~frame.pass_raised

\* the last handler was update, its collision phase started in the play
\* state and ran to its end
SweepEnded == PassEnded /\ frame.pass_state = "play" /\ ~frame.raised

DetectorNames == {"_cd_ship_meteor", "_cd_bullet_meteor"}

HandlerNames == {"_ch_ship_meteor", "_ch_bullet_meteor1", "_ch_bullet_meteor2",
                 "_ch_bullet_meteor3"}

\* C11: every entity that is flagged for removal when the update pass of a
\* frame begins is no longer in the live list when the pass ends, wherever
\* the flagged entities are in the list.
C11_FlaggedItemsLeaveTheList ==
    PassEnded => \A x \in frame.start_flagged : x \notin Range(frame.pass_items)

\* C12: every entity of the live list that is not flagged when the update
\* pass begins has its update invoked exactly once during the pass.
C12_UnflaggedItemsUpdatedOnce ==
    PassEnded =>
        \A x \in Range(frame.start_items) \ frame.start_flagged :
            Cardinality({k \in DOMAIN frame.updated : frame.updated[k] = x}) = 1

\* C13: in a frame whose collision phase starts in the play state, every
\* pair of distinct entities that are in the live list when the phase
\* starts is passed to collide at least once, also when a handler appends
\* to the list or replaces it.
C13_EveryPairIsTested ==
    SweepEnded =>
        \A a \in Range(frame.pass_items), b \in Range(frame.pass_items) :
            a # b =>
                \E k \in DOMAIN frame.events :
                    /\ frame.events[k].fn = "collide"
                    /\ \/ frame.events[k].args = <<a, b>>
                       \/ frame.events[k].args = <<b, a>>

\* a frame in which a handler replaced the list (level completed) while
\* the bullet and the last meteor were both in it
C13_Witness ==
    /\ SweepEnded
    /\ game.state = "level"
    /\ Len(frame.pass_items) >= 4

\* C14: in the collision phase handle is invoked directly after each
\* positive collide, before the next pair is tested, and once a handler
\* has flagged an entity no detector and no handler is invoked with that
\* entity for the rest of the frame.
C14_HandleAtOnceAndFlaggedLeftAlone ==
    frame.handler = "update" =>
        \A k \in DOMAIN frame.events :
            LET e == frame.events[k]
            IN  /\ (e.fn = "collide" /\ e.result = "True") =>
                       /\ k + 2 <= Len(frame.events)
                       /\ frame.events[k + 1].fn = "handle"
                       /\ frame.events[k + 1].args = e.args
                       /\ frame.events[k + 2].fn \in HandlerNames
                       /\ {frame.events[k + 2].args[1], frame.events[k + 2].args[2]}
                              = {e.args[1], e.args[2]}
                /\ \A x \in e.flagged :
                       \A n \in (k + 1)..Len(frame.events) :
                           frame.events[n].fn \in DetectorNames \cup HandlerNames
                               => /\ frame.events[n].args[1] # x
                                  /\ frame.events[n].args[2] # x

\* a frame in which a handler flagged an entity and a later pair with that
\* entity was passed to collide
C14_Witness ==
    /\ frame.handler = "update"
    /\ \E k \in DOMAIN frame.events :
           \E x \in frame.events[k].flagged :
               \E n \in (k + 1)..Len(frame.events) :
                   /\ frame.events[n].fn = "collide"
                   /\ x \in {frame.events[n].args[1], frame.events[n].args[2]}

MeteorClasses == {"Meteor1", "Meteor2", "Meteor3"}

\* the calls of the collision handlers in the log of the last frame
HandlerCalls == {k \in DOMAIN frame.events : frame.events[k].fn \in HandlerNames}

\* the state of the game when call k of the log of the last frame returned
StateAfter(k) ==
    IF k < Len(frame.events) THEN frame.events[k + 1].state ELSE game.state

\* call k of the log is a handler call, made in play, that removed its
\* meteor from Game.meteors and left Game.meteors empty
EmptiesMeteors(k) ==
    /\ k \in HandlerCalls
    /\ frame.events[k].state = "play"
    /\ frame.events[k].result = "None"
    /\ frame.events[k].args[2] \in frame.events[k].flagged
    /\ frame.events[k].tracked = 0

\* C23: the game leaves play for the level state exactly when a collision
\* handler removes a meteor and leaves Game.meteors empty, in that handler
\* call, with the level incremented by exactly 1; Game.meteors is not
\* empty in any other play state.
C23_LevelCompleteIffMeteorsEmptied ==
    /\ game.state = "play" => Len(game.meteors) > 0
    /\ \A k \in DOMAIN frame.events :
           /\ frame.events[k].state = "play" => (k = 1 \/ frame.events[k - 1].tracked > 0)
           /\ (frame.events[k].state = "play" /\ StateAfter(k) = "level")
                  <=> EmptiesMeteors(k)
           /\ EmptiesMeteors(k) => /\ game.state = "level"
                                   /\ game.level = frame.start_level + 1
    /\ (frame.start_state = "play" /\ game.state = "level")
           => /\ frame.handler = "update"
              /\ frame.pass_state = "play"
              /\ \E k \in HandlerCalls : EmptiesMeteors(k)
    /\ (frame.start_state = "play" /\ game.state # "level")
           => game.level \in {frame.start_level, 1}

\* a frame in which a handler destroyed the last meteor
C23_Witness ==
    /\ frame.handler = "update"
    /\ \E k \in HandlerCalls : EmptiesMeteors(k)
    /\ game.state = "level"
    /\ game.level = frame.start_level + 1

\* C24: once the ship-meteor handler has flagged the ship during play, the
\* state that follows play is game_over: the level state (and with it a
\* new play session) is not reached with the ship of the session flagged.
C24_ShipHitEndsInGameOver ==
    (game.state = "level" /\ game.ship # NoObj) => ~game.objs[game.ship].remove

\* C25: no collision handler is invoked while the state of the game is not
\* play, the rest of a sweep in which a handler has switched the state to
\* level and replaced the list included.
C25_HandlersOnlyInPlay ==
    \A k \in HandlerCalls : frame.events[k].state = "play"

\* a frame in which pairs were tested after a handler had switched the
\* state to level
C25_Witness ==
    /\ frame.handler = "update"
    /\ \E k \in HandlerCalls :
           /\ EmptiesMeteors(k)
           /\ \E n \in (k + 1)..Len(frame.events) :
                  /\ frame.events[n].fn = "collide"
                  /\ frame.events[n].state = "level"

\* the meteors among the objects of the game
Meteors == {x \in DOMAIN game.objs : game.objs[x].cls \in MeteorClasses}

\* C26: for every meteor 0 <= health <= max_health, the meteor is flagged
\* for removal exactly if health = 0, and health is max_health less the
\* number of hits: no hit on a flagged meteor, no negative health, and
\* destruction by exactly max_health hits.
C26_HealthWithinBounds ==
    \A m \in Meteors :
        LET obj == game.objs[m]
        IN  /\ 0 <= obj.health
            /\ obj.health <= max_health(obj.cls)
            /\ obj.remove <=> obj.health = 0
            /\ obj.health + obj.hits = max_health(obj.cls)

\* a destroyed meteor of each class has taken max_health hits
C26_Witness ==
    \E m \in Meteors :
        /\ game.objs[m].cls = "Meteor1"
        /\ game.objs[m].remove
        /\ game.objs[m].hits = 6
        /\ m \in Range(game.items)

\* C27: in every play state Game.meteors holds exactly the meteors of the
\* list that are not flagged for removal, each once, and no bullet-meteor
\* handler fails on self.meteors.remove.
C27_TrackedAreTheLiveMeteors ==
    /\ game.state = "play" =>
           /\ Range(game.meteors) =
                  {x \in Range(game.items) :
                      game.objs[x].cls \in MeteorClasses /\ ~game.objs[x].remove}
           /\ \A i \in DOMAIN game.meteors, j \in DOMAIN game.meteors :
                  game.meteors[i] = game.meteors[j] => i = j
           /\ \A i \in DOMAIN game.items, j \in DOMAIN game.items :
                  game.items[i] = game.items[j] => i = j
    /\ \A k \in HandlerCalls : frame.events[k].result # "raise"

\* a play state of a second game, with a flagged meteor still in the list
C27_Witness ==
    /\ game.state = "play"
    /\ frame.handler = "update"
    /\ \E x \in Range(game.items) :
           game.objs[x].cls \in MeteorClasses /\ game.objs[x].remove
    /\ Len(game.meteors) >= 3

\* the positions of the list that hold a Bullet
Bullets == {i \in DOMAIN game.items : game.objs[game.items[i]].cls = "Bullet"}

\* C28: the list holds at most one Bullet, and Game.bullet refers to the
\* Bullet it holds.
C28_AtMostOneBullet ==
    /\ Cardinality(Bullets) <= 1
    /\ \A i \in Bullets : game.items[i] = game.bullet

\* the fire key pressed while a flagged bullet is still in the list
C28_Witness ==
    /\ frame.handler = "on_key"
    /\ game.state = "play"
    /\ frame.start_items = game.items
    /\ \E i \in Bullets : game.objs[game.items[i]].remove

\* the pairs passed to collide in the last frame
CollideCalls == {k \in DOMAIN frame.events : frame.events[k].fn = "collide"}

\* C29: the collision sweep of every frame ends: at most one meteor is
\* destroyed in a frame, so at most three entities are appended to the
\* list while the loops iterate it, and the loops test at most
\* (n + 3) * (n + 2) pairs for a list of n entities.
C29_SweepIsBounded ==
    frame.handler = "update" =>
        /\ Cardinality({k \in HandlerCalls :
                           frame.events[k].args[2] \in frame.events[k].flagged}) <= 1
        /\ game.state = "play" => Len(game.items) <= Len(frame.pass_items) + 3
        /\ Cardinality(CollideCalls)
               <= (Len(frame.pass_items) + 3) * (Len(frame.pass_items) + 2)

\* a frame in which three meteors were appended during the sweep and the
\* loops went on to test them
C29_Witness ==
    /\ frame.handler = "update"
    /\ game.state = "play"
    /\ Len(game.items) = Len(frame.pass_items) + 3
    /\ Cardinality(CollideCalls) > Len(frame.pass_items) * (Len(frame.pass_items) - 1)

(***************************************************************************)
(* Specification SpecPlace: Game.add_meteor1 (871-892) for a level, one    *)
(* step per turn of its while loop.                                        *)
(*                                                                         *)
(* The window is cut into CellsX * CellsY closed cells of CellW by CellH   *)
(* pixels.  Two positions of one cell are at a squared distance of at most *)
(* CellW^2 + CellH^2, so a candidate in the cell of the ship or in the     *)
(* cell of a meteor placed before is rejected by the tests of the loop.    *)
(* A candidate in any other cell is accepted or rejected, as its distances *)
(* decide; the positions themselves are not held, only how many cells hold *)
(* a meteor.                                                               *)
(***************************************************************************)
\* the size of the window pyglet.window.Window() opens (get_size, 874)
winx == 640

winy == 480

\* abs(pos - last_pos) < 20000 (884, 887): abs is the squared length
MinDist2 == 20000

CellW == 80

CellH == 96

CellsX == winx \div CellW

CellsY == winy \div CellH

\* the levels a game is started at
MaxLevel == 40

\* abs(pos - other) < 20000 for two positions of one cell, at their largest
\* distance
SameCellIsNear == CellW * CellW + CellH * CellH < MinDist2

\* the cells that hold neither the ship nor a meteor placed before
FreeCells(p) == CellsX * CellsY - 1 - Len(p.last_poses)

\* where the candidate random.uniform draws can lie
Candidates == {"cell_of_ship", "cell_of_meteor", "free_cell_near", "free_cell_far"}

\* the value of search when the tests of one turn of the while loop
\* (879-888) have run on a candidate
search_after(p, candidate) ==
    CASE candidate = "cell_of_ship" -> SameCellIsNear
      [] candidate = "cell_of_meteor" -> SameCellIsNear
      [] candidate = "free_cell_near" -> TRUE
      [] candidate = "free_cell_far" -> FALSE

\* a candidate of a kind exists in the window
CanDraw(p, candidate) ==
    CASE candidate = "cell_of_ship" -> TRUE
      [] candidate = "cell_of_meteor" -> Len(p.last_poses) > 0
      [] candidate = "free_cell_near" -> FreeCells(p) > 0
      [] candidate = "free_cell_far" -> FreeCells(p) > 0

\* add_meteor1 entered at a level: count = self.level, last_poses = []
InitPlace ==
    /\ \E level \in 1..MaxLevel :
           place = [count |-> level, last_poses |-> <<>>, search |-> TRUE,
                    added |-> 0, pc |-> "while"]
    /\ NoCollider
    /\ NoEntity
    /\ NoLines
    /\ NoSweep
    /\ NoGame
    /\ NoShape

\* one turn of the while loop on a candidate; when search is False the
\* position is appended, the Meteor1 is added (889-892) and the for loop
\* goes on or ends
P_draw(candidate) ==
    /\ place # None
    /\ place.pc = "while"
    /\ CanDraw(place, candidate)
    /\ LET search == search_after(place, candidate)
       IN  IF search
           THEN place' = [place EXCEPT !.search = TRUE]
           ELSE LET poses == Append(place.last_poses, candidate)
                IN  place' = [place EXCEPT
                                 !.search = Len(poses) < place.count,
                                 !.last_poses = poses,
                                 !.added = @ + 1,
                                 !.pc = IF Len(poses) < place.count
                                        THEN "while" ELSE "return"]
    /\ UNCHANGED <<colVars, entVars, lineVars, sweepVars, gameVars, shapeVars>>

NextPlace == \E candidate \in Candidates : P_draw(candidate)

SpecPlace == InitPlace /\ [][NextPlace]_vars

\* the random choice is fair: a candidate that would be accepted is drawn
\* in the end if there is one
SpecPlaceFair == SpecPlace /\ WF_vars(P_draw("free_cell_far"))

\* C30: for every level, add_meteor1 returns in the end, with exactly
\* level meteors added, each far enough from the ship and from the meteors
\* placed before it.
C30_PlacementTerminates ==
    <>(/\ place.pc = "return"
       /\ place.added = place.count
       /\ \A i \in DOMAIN place.last_poses : place.last_poses[i] = "free_cell_far")

(***************************************************************************)
(* Specification SpecShape: the transformation pipeline and the two        *)
(* collision detectors on a Ship, a Bullet and a Meteor whose vectors are  *)
(* Vector2 objects of the heap.  Every field that holds a vector holds an  *)
(* address, so that a call which assigns to the x or y of an object the    *)
(* entity owns shows as a change of heap.  All vectors are in tenths of a  *)
(* pixel, except size, which multiplies the shape points; orientations are *)
(* multiples of 90 degrees.  The vectors a call creates are appended to    *)
(* the heap and are dropped when the call returns and nothing refers to    *)
(* them.                                                                   *)
(***************************************************************************)

\* frames (Game.update calls) explored for the three objects
MaxShapeFrames == 2
\* the longest frame time explored, in the unit in which the bullet moves
\* one pixel
MaxFrameTime == 2

\* Vector2(...) for each value of vals: the heap and the new addresses
NewVectors(h, vals) ==
    [h |-> h \o vals, ret |-> [i \in 1..Len(vals) |-> Len(h) + i]]

\* Ship.__init__(start_pos), of size (2, 4) pixels
H_Ship(h, start_pos) ==
    LET pts == NewVectors(h, to_points(<<5, 10, 10, 0, 10, 0, 5, 2,
                                         5, 2, 0, 0, 0, 0, 5, 10>>))
        own == NewVectors(pts.h, <<Vec(5, 5), Vec(2, 4), start_pos>>)
        e0 == [cls |-> "Ship", points |-> pts.ret, anchor |-> own.ret[1],
               size |-> own.ret[2], pos |-> None, last_pos |-> <<>>,
               deg |-> 0, last_deg |-> <<>>]
    IN  [h |-> own.h, ret |-> init_deg(init_pos(e0, own.ret[3]), 0)]

\* Bullet.__init__(start_pos, start_deg), of size (1, 2) pixels
H_Bullet(h, start_pos, start_deg) ==
    LET pts == NewVectors(h, to_points(<<0, 0, 5, 10, 5, 10, 10, 0, 10, 0, 0, 0>>))
        own == NewVectors(pts.h, <<Vec(5, 5), Vec(1, 2), start_pos>>)
        e0 == [cls |-> "Bullet", points |-> pts.ret, anchor |-> own.ret[1],
               size |-> own.ret[2], pos |-> None, last_pos |-> <<>>,
               deg |-> 0, last_deg |-> <<>>]
    IN  [h |-> own.h, ret |-> init_deg(init_pos(e0, own.ret[3]), start_deg)]

\* Meteor.__init__ with num_points vertices: generate_points appends every
\* vertex but the first twice and the first one again at the end, so that
\* two entries of points are one Vector2 object
H_Meteor(h, start_pos, num_points, size, lengths) ==
    LET interval == 360 \div num_points
        p(i) == VecAdd(VecMul(deg_to_vel(i * interval), lengths[i + 1]), Vec(5, 5))
        pts == NewVectors(h, [i \in 1..num_points |-> p(i - 1)])
        own == NewVectors(pts.h, <<Vec(5, 5), Vec(size, size), start_pos>>)
        e0 == [cls |-> "Meteor",
               points |-> [k \in 1..(2 * num_points) |->
                              pts.ret[((k \div 2) % num_points) + 1]],
               anchor |-> own.ret[1], size |-> own.ret[2],
               pos |-> None, last_pos |-> <<>>, deg |-> 0, last_deg |-> <<>>]
    IN  [h |-> own.h, ret |-> init_deg(init_pos(e0, own.ret[3]), 0)]

\* the value of F at v, with v evaluated once
Bind(v, F(_)) == CHOOSE y \in {F(x) : x \in {v}} : TRUE

\* point.x = point.x * self.size.x; point.y = point.y * self.size.y
ScaleInPlace(h, point, size) ==
    [h EXCEPT ![point] = Vec(h[point].x * h[size].x, h[point].y * h[size].y)]

\* x = point.x * cos - point.y * sin; y = point.x * sin + point.y * cos;
\* point.y = y; point.x = x
RotateInPlace(h, point, deg) ==
    [h EXCEPT ![point] = Vec(h[point].x * Cos(deg) - h[point].y * Sin(deg),
                             h[point].x * Sin(deg) + h[point].y * Cos(deg))]

\* get_point_transformed working on self.points[index] itself
H_get_point_transformedInPlace(h, e, index, num) ==
    Bind([h EXCEPT ![PyIndex(e.points, index)] =
                 VecSub(h[PyIndex(e.points, index)], h[e.anchor])],
         LAMBDA h0 :
    Bind(ScaleInPlace(h0, PyIndex(e.points, index), e.size), LAMBDA h1 :
    Bind(RotateInPlace(h1, PyIndex(e.points, index), DegUsed(e, num)), LAMBDA h2 :
    Bind(NewVectors(h2, <<VecAdd(h2[PyIndex(e.points, index)], h2[PosUsed(e, num)])>>),
         LAMBDA moved : [h |-> moved.h, ret |-> moved.ret[1]]))))

\* get_point_transformed(index, num): point - anchor is a new vector, which
\* is scaled and rotated in place; point + pos is a new vector, returned
H_get_point_transformed(h, e, index, num) ==
    Bind(NewVectors(h, <<VecSub(h[PyIndex(e.points, index)], h[e.anchor])>>),
         LAMBDA centred :
    Bind(ScaleInPlace(centred.h, centred.ret[1], e.size), LAMBDA h1 :
    Bind(RotateInPlace(h1, centred.ret[1], DegUsed(e, num)), LAMBDA h2 :
    Bind(NewVectors(h2, <<VecAdd(h2[centred.ret[1]], h2[PosUsed(e, num)])>>),
         LAMBDA moved : [h |-> moved.h, ret |-> moved.ret[1]]))))

\* the loop of get_all_points_transformed from index i on
RECURSIVE H_points_from(_, _, _, _, _)
H_points_from(h, e, i, num, points) ==
    IF i >= Len(e.points) THEN [h |-> h, ret |-> points]
    ELSE Bind(H_get_point_transformed(h, e, i, num), LAMBDA r :
              H_points_from(r.h, e, i + 1, num, Append(points, r.ret)))

\* get_all_points_transformed(num)
H_get_all_points_transformed(h, e, num) == H_points_from(h, e, 0, num, <<>>)

\* Line(p1, p2) of two vectors get_point_transformed returned: the heap, the
\* Line and whether the constructor changed p1
H_Line(h, p1, p2) ==
    Bind(Line_initHeap(h, p1, p2), LAMBDA h1 :
         [h |-> h1, ret |-> Line_init(p1, p2), moved |-> IF h1 # h THEN 1 ELSE 0])

\* the loop of get_lines from segment i on; moved counts the Lines whose
\* constructor changed their start
RECURSIVE H_lines_from(_, _, _, _, _)
H_lines_from(h, e, i, lines, moved) ==
    IF i >= Len(e.points) \div 2 THEN [h |-> h, ret |-> lines, moved |-> moved]
    ELSE Bind(H_get_point_transformed(h, e, i * 2, 0), LAMBDA p1 :
         Bind(H_get_point_transformed(p1.h, e, i * 2 + 1, 0), LAMBDA p2 :
         Bind(H_Line(p2.h, p1.ret, p2.ret), LAMBDA l :
              H_lines_from(l.h, e, i + 1, Append(lines, l.ret), moved + l.moved))))

\* get_lines()
H_get_lines(h, e) == H_lines_from(h, e, 0, <<>>, 0)

\* meteor.bounding_circle().inside(point): point - center is a new vector;
\* the radius is size.x / 2 pixels
H_inside(h, meteor, point) ==
    Bind(NewVectors(h, <<VecSub(h[point], h[meteor.pos])>>), LAMBDA d :
         [h |-> d.h,
          ret |-> d.h[d.ret[1]].x * d.h[d.ret[1]].x + d.h[d.ret[1]].y * d.h[d.ret[1]].y
                  < ((h[meteor.size].x \div 2) * 10) * ((h[meteor.size].x \div 2) * 10)])

\* Game._cd_bullet_meteor(bullet, meteor); lines counts the Lines
\* constructed, moved those whose constructor changed their start
H_cd_bullet_meteor(h, bullet, meteor) ==
    Bind(H_inside(h, meteor, bullet.pos), LAMBDA c :
         IF c.ret
         THEN Bind(H_Line(c.h, PyIndex(bullet.last_pos, 1), bullet.pos), LAMBDA line1 :
              Bind(H_get_lines(line1.h, meteor), LAMBDA ls :
                   [h |-> ls.h,
                    ret |-> \E i \in DOMAIN ls.ret : intersect(ls.h, line1.ret, ls.ret[i]),
                    lines |-> 1 + Len(ls.ret),
                    moved |-> ls.moved + line1.moved]))
         ELSE [h |-> c.h, ret |-> FALSE, lines |-> 0, moved |-> 0])

\* the loop of Game._cd_ship_meteor from the ship point of an index on
RECURSIVE H_ship_points_from(_, _, _, _, _, _, _)
H_ship_points_from(h, ship, meteor, ship_points, ship_point_index, lines, moved) ==
    IF ship_point_index >= Len(ship_points)
    THEN [h |-> h, ret |-> FALSE, lines |-> lines, moved |-> moved]
    ELSE Bind(H_inside(h, meteor, PyIndex(ship_points, ship_point_index)), LAMBDA c :
         IF c.ret
         THEN Bind(H_get_point_transformed(c.h, ship, ship_point_index, 2), LAMBDA old :
              Bind(H_Line(old.h, old.ret, PyIndex(ship_points, ship_point_index)),
                   LAMBDA line1 :
              Bind(H_get_lines(line1.h, meteor), LAMBDA ls :
                   IF \E i \in DOMAIN ls.ret : intersect(ls.h, ls.ret[i], line1.ret)
                   THEN [h |-> ls.h, ret |-> TRUE,
                         lines |-> lines + 1 + Len(ls.ret),
                         moved |-> moved + ls.moved + line1.moved]
                   ELSE H_ship_points_from(ls.h, ship, meteor, ship_points,
                                           ship_point_index + 1,
                                           lines + 1 + Len(ls.ret),
                                           moved + ls.moved + line1.moved))))
         ELSE H_ship_points_from(c.h, ship, meteor, ship_points,
                                 ship_point_index + 1, lines, moved))

\* Game._cd_ship_meteor(ship, meteor)
H_cd_ship_meteor(h, ship, meteor) ==
    Bind(H_get_all_points_transformed(h, ship, 0), LAMBDA ship_points :
         H_ship_points_from(ship_points.h, ship, meteor, ship_points.ret, 0, 0, 0))

\* Ship.update: pos = self.pos + self.vel * time is a new vector, wrapped in
\* place into the window and handed to update_pos; vel * time is (0, thrust)
H_Ship_update(h, e, thrust) ==
    LET pos == NewVectors(h, <<VecAdd(h[e.pos], Vec(0, thrust))>>)
        a == pos.ret[1]
        h1 == [pos.h EXCEPT ![a].x = pos.h[a].x % (WinX * 10)]
        h2 == [h1 EXCEPT ![a].y = h1[a].y % (WinY * 10)]
    IN  [h |-> h2, ret |-> update_pos(e, a)]

\* Bullet.update at a frame time of 0: self.pos + self.vel * time is a new
\* vector with the coordinates of pos
H_Bullet_updateAtRest(h, e, step) ==
    LET pos == NewVectors(h, <<VecAdd(h[e.pos], VecMul(deg_to_vel(e.deg), 0))>>)
    IN  [h |-> pos.h, ret |-> update_pos(e, pos.ret[1])]

\* Bullet.update: self.pos + self.vel * time is a new vector; vel * time is
\* step tenths along the orientation the bullet was fired at, with step > 0
\* as vel has magnitude 500 and the frame time is positive
H_Bullet_update(h, e, step) ==
    LET pos == NewVectors(h, <<VecAdd(h[e.pos], VecMul(deg_to_vel(e.deg), step))>>)
    IN  [h |-> pos.h, ret |-> update_pos(e, pos.ret[1])]

\* Meteor.update: update_deg(deg + turn_speed * time), then
\* pos = self.pos + self.vel * time, a new vector, handed to update_pos;
\* away from the window's edges no coordinate is wrapped
H_Meteor_update(h, e, turn, drift) ==
    LET pos == NewVectors(h, <<VecAdd(h[e.pos], Vec(0, 0 - drift))>>)
    IN  [h |-> pos.h, ret |-> update_pos(update_deg(e, (e.deg + turn) % 360), pos.ret[1])]

\* the vectors of the heap a call leaves behind: those that existed before
\* and those an entity was handed (owned is their number)
Kept(h, owned) == SubSeq(h, 1, owned)

\* the coordinates of the vectors at a sequence of addresses
ValuesAt(h, addrs) == [i \in DOMAIN addrs |-> h[addrs[i]]]

\* the coordinates of the two ends of each Line of a sequence
LinesAt(h, lines) ==
    [i \in DOMAIN lines |-> <<h[lines[i].start], h[lines[i].end]>>]

\* Game.add_ship, Game.add_bullet (pos = ship.pos + deg_to_vel(ship.deg) *
\* ship.size.y / 2) and a Meteor of four vertices and size 4 above the ship
InitShape ==
    /\ \E lengths \in {<<5, 4, 5, 4>>} :
           LET ship == H_Ship(<<>>, Vec(44, 20))
               start == VecAdd(ship.h[ship.ret.pos],
                               VecMul(deg_to_vel(ship.ret.deg),
                                      (ship.h[ship.ret.size].y * 10) \div 2))
               bullet == H_Bullet(ship.h, start, ship.ret.deg)
               meteor == H_Meteor(bullet.h, Vec(50, 70), 4, 4, lengths)
           IN  /\ heap = meteor.h
               /\ world = [Ship |-> ship.ret, Bullet |-> bullet.ret,
                           Meteor |-> meteor.ret, frames |-> 0]
    /\ wcall = [fn |-> "__init__"]
    /\ line = None
    /\ lop = None
    /\ NoCollider
    /\ NoEntity
    /\ NoSweep
    /\ NoGame
    /\ NoPlace

ShapeNames == {"Ship", "Bullet", "Meteor"}

ShapeIdle == <<line, lop, colVars, entVars, sweepVars, gameVars, placeVars>>

\* the first loop of Game.update(frame_time): update of the ship, the meteor
\* and the bullet, in the order of Game.items.  In a frame of time tenths
\* of a unit the bullet moves by 10 * time and the meteor by 5 * time; the
\* ship moves by thrust and the meteor turns by turn
W_update(thrust, turn, time) ==
    /\ world # None
    /\ world.frames < MaxShapeFrames
    /\ LET s == H_Ship_update(heap, world.Ship, thrust)
           m == H_Meteor_update(s.h, world.Meteor, turn, 5 * time)
           b == H_Bullet_update(m.h, world.Bullet, 10 * time)
       IN  /\ heap' = b.h
           /\ world' = [Ship |-> s.ret, Bullet |-> b.ret, Meteor |-> m.ret,
                        frames |-> world.frames + 1]
    /\ wcall' = [fn |-> "update"]
    /\ UNCHANGED ShapeIdle

\* name.get_point_transformed(index, num)
W_get_point_transformed(name, index, num) ==
    /\ world # None
    /\ index \in 0..(Len(world[name].points) - 1)
    /\ \E r \in {H_get_point_transformed(heap, world[name], index, num)} :
           /\ heap' = Kept(r.h, Len(heap))
           /\ wcall' = [fn |-> "get_point_transformed", obj |-> name,
                        index |-> index, num |-> num, ret |-> r.h[r.ret]]
    /\ UNCHANGED <<world, ShapeIdle>>

\* name.get_all_points_transformed(num)
W_get_all_points_transformed(name, num) ==
    /\ world # None
    /\ \E r \in {H_get_all_points_transformed(heap, world[name], num)} :
           /\ heap' = Kept(r.h, Len(heap))
           /\ wcall' = [fn |-> "get_all_points_transformed", obj |-> name,
                        index |-> None, num |-> num, ret |-> ValuesAt(r.h, r.ret)]
    /\ UNCHANGED <<world, ShapeIdle>>

\* name.get_lines()
W_get_lines(name) ==
    /\ world # None
    /\ \E r \in {H_get_lines(heap, world[name])} :
           /\ heap' = Kept(r.h, Len(heap))
           /\ wcall' = [fn |-> "get_lines", obj |-> name,
                        index |-> None, num |-> 0, ret |-> LinesAt(r.h, r.ret)]
    /\ UNCHANGED <<world, ShapeIdle>>

\* _cd_ship_meteor(ship, meteor), which the second loop of Game.update
\* calls after the first loop has updated the objects
W_cd_ship_meteor ==
    /\ world # None
    /\ world.frames > 0
    /\ \E r \in {H_cd_ship_meteor(heap, world.Ship, world.Meteor)} :
           /\ heap' = Kept(r.h, Len(heap))
           /\ wcall' = [fn |-> "_cd_ship_meteor", ret |-> r.ret,
                        lines |-> r.lines, moved |-> r.moved]
    /\ UNCHANGED <<world, ShapeIdle>>

\* _cd_bullet_meteor(bullet, meteor), likewise
W_cd_bullet_meteor ==
    /\ world # None
    /\ world.frames > 0
    /\ \E r \in {H_cd_bullet_meteor(heap, world.Bullet, world.Meteor)} :
           /\ heap' = Kept(r.h, Len(heap))
           /\ wcall' = [fn |-> "_cd_bullet_meteor", ret |-> r.ret,
                        lines |-> r.lines, moved |-> r.moved]
    /\ UNCHANGED <<world, ShapeIdle>>

NextShape ==
    \/ \E thrust \in {0, 20}, turn \in {0, 90}, time \in 1..MaxFrameTime :
           W_update(thrust, turn, time)
    \/ \E name \in ShapeNames, index \in 0..7, num \in 0..2 :
           W_get_point_transformed(name, index, num)
    \/ \E name \in ShapeNames, num \in 0..2 : W_get_all_points_transformed(name, num)
    \/ \E name \in ShapeNames : W_get_lines(name)
    \/ W_cd_ship_meteor
    \/ W_cd_bullet_meteor

SpecShape == InitShape /\ [][NextShape]_vars

(***************************************************************************)
(* Claims C21 and C22, checked under SpecShape.                            *)
(***************************************************************************)
TransformNames == {"get_point_transformed", "get_all_points_transformed", "get_lines"}

ShapeDetectors == {"_cd_ship_meteor", "_cd_bullet_meteor"}

\* the step repeats the call of the state before it
SameCall ==
    /\ wcall.fn \in TransformNames
    /\ wcall'.fn = wcall.fn
    /\ wcall'.obj = wcall.obj
    /\ wcall'.index = wcall.index
    /\ wcall'.num = wcall.num

\* C21: a call of _cd_ship_meteor or of _cd_bullet_meteor in a state the
\* game reaches leaves every vector the ship, the bullet and the meteor own
\* (pos, the position history, the shape points, anchor and size) and every
\* field of the three objects (deg and both histories among them) as it
\* found them.
C21_DetectorsChangeNothing ==
    [][wcall'.fn \in ShapeDetectors => (heap' = heap /\ world' = world)]_vars

\* a bullet that has moved twice is found to cross the outline of the
\* meteor: Line(bullet.last_pos[1], bullet.pos) and the four Lines of
\* get_lines were constructed
C21_Witness ==
    /\ wcall.fn = "_cd_bullet_meteor"
    /\ wcall.ret
    /\ wcall.lines = 5
    /\ world.frames = 2

\* C22: get_point_transformed, get_all_points_transformed and get_lines,
\* for every index and every lag, leave the shape points, anchor, size, pos,
\* deg and both histories of the entity as they found them, and the same
\* call made again at once returns the same geometry.
C22_TransformsChangeNothing ==
    [][wcall'.fn \in TransformNames =>
           /\ heap' = heap
           /\ world' = world
           /\ SameCall => wcall'.ret = wcall.ret]_vars

\* a point of the bullet as it was two updates ago was asked for after the
\* bullet had moved twice
C22_Witness ==
    /\ wcall.fn = "get_point_transformed"
    /\ wcall.obj = "Bullet"
    /\ wcall.num = 2
    /\ world.frames = 2
    /\ heap[world.Bullet.pos] # heap[PyIndex(world.Bullet.last_pos, 1)]
    /\ LET now == H_get_point_transformed(heap, world.Bullet, wcall.index, 0)
       IN  wcall.ret # now.h[now.ret]

====
